---- MODULE Spec2Model ----
(***************************************************************************)
(* FlowCoach: the session lifecycle, the created_tasks ledger and the      *)
(* Todoist task creation of src/src/core/flowcoach.ts,                     *)
(* src/src/services/sessionService.ts (SessionService, ThreadStateService) *)
(* and src/src/services/calendarService.ts (TodoistService).               *)
(*                                                                         *)
(* accept is split at its await points (one action per awaited call), so   *)
(* that two accept calls can interleave and the process can stop between   *)
(* two awaits.  The other handlers run as one action each, when no accept  *)
(* call is in flight.                                                      *)
(***************************************************************************)
EXTENDS Integers, Sequences, FiniteSets, TLC

\* ------------------------------------------------------------------ bounds
MaxSessions == 1
MaxTasks == 2
MaxExternal == 2
MaxTime == 1
MaxAccepts == 2
MaxCalls == 2

\* ------------------------------------------------------------- vocabulary
Users == {"u1", "u2"}
\* The users who send requests in the specifications below.
Callers == {"u1"}
Channels == {"DM"}
\* 'on' takes the branch 'soft' takes: the only test is previewMode !== 'off'.
PreviewModes == {"off", "soft"}
Statuses == {"pending", "accepted", "pushed", "discarded"}
NoBucket == "null"
Buckets == {"2min", "10min", "30plus", NoBucket}
EXPIRY_MS == 1800000

\* An optional value is a sequence of length 0 (undefined / NULL) or 1.
None == <<>>
Some(x) == <<x>>

\* Titles are character sequences, so that String.includes is computed.
TitleX == <<"x">>
TitleXY == <<"x", "y">>

\* Tasks as parseAndClassify returns them: a task with no time signal and
\* a task with an explicit time.  Tasks of a stored session never carry
\* subtasks.
TaskPool ==
  { [title |-> TitleX, explicit_minutes |-> None, duration_bucket |-> NoBucket],
    [title |-> TitleXY, explicit_minutes |-> Some(30), duration_bucket |-> "30plus"] }

ParsedLists == UNION { [1..n -> TaskPool] : n \in 1..MaxTasks }

VARIABLES
  previewMode,    \* FlowCoach.previewMode, read once from FC_PREVIEW_MODE
  sessions,       \* table sessions: row id = index
  created_tasks,  \* table created_tasks (the ledger)
  todoist,        \* tasks that exist in Todoist: task id = index
  threadCache,    \* ThreadStateService.stateCache
  threadDb,       \* table thread_state
  now,            \* Date.now()
  calls,          \* in-flight accept calls, one per call slot
  log,            \* history: what each accept call that found a session did
  response,       \* the response of the last handler that returned
  pendingDelete,  \* thread_state DELETEs issued and not awaited, not yet run
  written,        \* history: the state the last updateThreadState wrote
  returned,       \* history: what the last service query returned
  input           \* the text organize is given and what the service answers

vars == <<previewMode, sessions, created_tasks, todoist, threadCache,
          threadDb, now, calls, log, response, pendingDelete, written,
          returned, input>>

\* What the thread_state table holds, with the statements under way on it.
threadStore == <<threadDb, pendingDelete, written>>

Slots == 1..MaxCalls
ThreadKeys == Users \X Channels

\* ----------------------------------------------------------------- helpers
Range(s) == { s[i] : i \in DOMAIN s }

\* Date.now() read by a write: time has not moved, or has moved on.
Clock(t) == { t2 \in {t, t + 1} : t2 <= MaxTime }

\* String.prototype.includes on character sequences.
Includes(s, sub) ==
  \E k \in 0..(Len(s) - Len(sub)) :
    \A j \in 1..Len(sub) : s[k + j] = sub[j]

\* ---------------------------------------------------------- SessionService
\* createSession: the row inserted (input_text and created_at are stored
\* and never read by any decision, they are left out).
NewSession(userId, parsed, t) ==
  [userId |-> userId, parsed |-> parsed, status |-> "pending",
   created_task_ids |-> None, updatedAt |-> t]

\* updateSession: UPDATE ... WHERE id = ?; created_task_ids is overwritten
\* with the argument, NULL when the argument is missing.
UpdateSession(ss, sessionId, status, createdTaskIds, t) ==
  IF sessionId \in DOMAIN ss
  THEN [ss EXCEPT ![sessionId] =
          [@ EXCEPT !.status = status,
                    !.created_task_ids = createdTaskIds,
                    !.updatedAt = t]]
  ELSE ss

\* The rows the query selects when it leaves the user out.
PendingOfAnyUser(ss, userId) ==
  { s \in DOMAIN ss : ss[s].status = "pending" }

PendingOf(ss, userId) ==
  { s \in DOMAIN ss : ss[s].userId = userId /\ ss[s].status = "pending" }

\* The query ordering by updated_at ASC.
GetOldestPendingSession(ss, userId) ==
  { s \in PendingOf(ss, userId) :
      \A s2 \in PendingOf(ss, userId) : ss[s].updatedAt <= ss[s2].updatedAt }

\* getLastPendingSession: ORDER BY updated_at DESC LIMIT 1.  The set holds
\* every row the query may return (rows with equal updated_at are in no
\* defined order); it is empty when the query returns no row.
GetLastPendingSession(ss, userId) ==
  { s \in PendingOf(ss, userId) :
      \A s2 \in PendingOf(ss, userId) : ss[s2].updatedAt <= ss[s].updatedAt }

\* getSession: SELECT * FROM sessions WHERE id = ?, whatever the status and
\* whoever the user.
GetSession(ss, sessionId) ==
  IF sessionId \in DOMAIN ss THEN {sessionId} ELSE {}

\* generateTaskHash: md5 of "sessionId:title:duration_bucket"; the digest is
\* modelled by the content it is taken of.
GenerateTaskHash(task, sessionId) ==
  <<sessionId, task.title, task.duration_bucket>>

\* The lookup made with a hash taken without the session id.
IsTaskAlreadyCreatedOtherHash(ledger, sessionId, task) ==
  \E e \in ledger :
    /\ e.session_id = sessionId
    /\ e.title_hash = GenerateTaskHash(task, 0)

IsTaskAlreadyCreated(ledger, sessionId, task) ==
  \E e \in ledger :
    /\ e.session_id = sessionId
    /\ e.title_hash = GenerateTaskHash(task, sessionId)

\* recordTaskCreated: INSERT OR REPLACE on the key (session_id, title_hash);
\* todoistId || null.
RecordTaskCreated(ledger, sessionId, task, todoistId) ==
  LET h == GenerateTaskHash(task, sessionId)
  IN { e \in ledger : ~(e.session_id = sessionId /\ e.title_hash = h) }
     \cup { [session_id |-> sessionId, title_hash |-> h,
             todoist_id |-> todoistId, task_data |-> task] }

\* clearAllPendingSessions: every pending row of the user becomes discarded.
ClearAllPendingSessions(ss, userId, t) ==
  [s \in DOMAIN ss |->
     IF ss[s].userId = userId /\ ss[s].status = "pending"
     THEN [ss[s] EXCEPT !.status = "discarded", !.updatedAt = t]
     ELSE ss[s]]

\* ------------------------------------------------------ ThreadStateService
\* A ThreadStateUpdate: a field is left out (None) or given (Some(v)); the
\* value given for lastIntent or lastTopic may be null.
Null == "null"

NoThreadUpdate ==
  [lastIntent |-> None, lastCreatedTaskId |-> None, lastSessionId |-> None,
   lastTaskTitle |-> None, lastTopic |-> None, context |-> None]

ThreadFields == DOMAIN NoThreadUpdate

\* The fields whose type admits null.
NullableFields == {"lastIntent", "lastTopic"}

\* The field is given as null.
GivenNull(update, f) == f \in NullableFields /\ update[f][1] = Null

\* JSON.stringify and JSON.parse of a context object.
JsonStringify(v) == <<"json", v>>
JsonParse(text) == text[2]

\* The row INSERT OR REPLACE writes for a state: an undefined field is
\* stored as NULL, context ? JSON.stringify(context) : null.
StateToRow(state) ==
  [last_intent |-> state.lastIntent,
   last_created_task_id |-> state.lastCreatedTaskId,
   last_session_id |-> state.lastSessionId,
   last_task_title |-> state.lastTaskTitle,
   last_topic |-> state.lastTopic,
   context |-> IF state.context = None THEN None
               ELSE Some(JsonStringify(state.context[1])),
   updated_at |-> state.updatedAt]

\* The state getThreadState builds from a row:
\* row.context ? JSON.parse(row.context) : undefined.
RowToState(row) ==
  [lastIntent |-> row.last_intent,
   lastCreatedTaskId |-> row.last_created_task_id,
   lastSessionId |-> row.last_session_id,
   lastTaskTitle |-> row.last_task_title,
   lastTopic |-> row.last_topic,
   context |-> IF row.context = None THEN None
               ELSE Some(JsonParse(row.context[1])),
   updatedAt |-> row.updated_at]

\* The expiry test with twice the delay.
ExpiredLate(state, t) == t - state.updatedAt > 2 * EXPIRY_MS

\* Date.now() - state.updatedAt > this.EXPIRY_MS
Expired(state, t) == t - state.updatedAt > EXPIRY_MS

\* getThreadState: the state returned (None for null), and the cache, the
\* table and the DELETEs under way after the read.  An expired cache entry
\* is deleted and its row with it (await clearThreadState).  An expired row
\* met on the database path has its DELETE issued and not awaited: the read
\* returns while the statement is under way.
GetThreadState(cache, db, pending, key, t) ==
  IF cache[key] # None
  THEN IF Expired(cache[key][1], t)
       THEN [state |-> None,
             cache |-> [cache EXCEPT ![key] = None],
             db |-> [db EXCEPT ![key] = None],
             pending |-> pending]
       ELSE [state |-> cache[key], cache |-> cache, db |-> db,
             pending |-> pending]
  ELSE IF db[key] # None
       THEN IF Expired(RowToState(db[key][1]), t)
            THEN [state |-> None,
                  cache |-> cache,
                  db |-> db,
                  pending |-> pending \cup {key}]
            ELSE [state |-> Some(RowToState(db[key][1])),
                  cache |-> [cache EXCEPT ![key] = Some(RowToState(db[key][1]))],
                  db |-> db,
                  pending |-> pending]
       ELSE [state |-> None, cache |-> cache, db |-> db, pending |-> pending]

\* The merge that lets every field given replace the existing one and
\* drops the existing state.
MergedReplacing(update, existing, f) ==
  IF update[f] # None
  THEN IF GivenNull(update, f) THEN None ELSE update[f]
  ELSE None

\* update.f !== undefined ? update.f : existing?.f
Merged(update, existing, f) ==
  IF update[f] # None
  THEN IF GivenNull(update, f) THEN None ELSE update[f]
  ELSE IF existing # None THEN existing[1][f] ELSE None

\* updateThreadState: merge the update over the existing state, stamp it,
\* write it to the cache and to the table (the INSERT OR REPLACE is awaited).
\* pending holds the DELETEs that were under way when the INSERT was issued.
UpdateThreadState(cache, db, pending, key, update, t) ==
  LET got == GetThreadState(cache, db, pending, key, t)
      newState ==
        [lastIntent |-> Merged(update, got.state, "lastIntent"),
         lastCreatedTaskId |-> Merged(update, got.state, "lastCreatedTaskId"),
         lastSessionId |-> Merged(update, got.state, "lastSessionId"),
         lastTaskTitle |-> Merged(update, got.state, "lastTaskTitle"),
         lastTopic |-> Merged(update, got.state, "lastTopic"),
         context |-> Merged(update, got.state, "context"),
         updatedAt |-> t]
  IN [state |-> newState,
      cache |-> [got.cache EXCEPT ![key] = Some(newState)],
      db |-> [got.db EXCEPT ![key] = Some(StateToRow(newState))],
      pending |-> got.pending]

\* The database runs its statements in parallel mode: a DELETE under way
\* when the INSERT was issued has run before it (and is over), or runs
\* after it.
AfterInsert(pending, key) == {pending, pending \ {key}}

\* ---------------------------------------------------------- TodoistService
\* formatTaskContent with the default labelMode 'labels': the content is the
\* title (the bucket travels as a label).
FormatTaskContent(task) == task.title

\* createSingleTask, when the POST succeeds: the task now exists in Todoist
\* under the next id.  sid, idx and by are history fields (which session
\* task the create was made for, and by which handler); Todoist itself only
\* holds the content.
CreateSingleTask(ext, task, sid, idx, by, confirmed) ==
  Append(ext, [content |-> FormatTaskContent(task), sid |-> sid,
               idx |-> idx, by |-> by, confirmed |-> confirmed])

\* createTasks as one step (the callers that do not interleave): conn is the
\* outcome of testConnection, ok the set of positions whose POST succeeds.
\* The result holds created (id and content of each TodoistTask, with the
\* position it was made for), failed, offline, and Todoist afterwards.
RECURSIVE CreateLoop(_, _, _, _, _, _, _, _)
CreateLoop(tasks, i, ok, sid, by, confirmed, acc, idxOf) ==
  IF i > Len(tasks) THEN acc
  ELSE IF i \in ok
       THEN LET ext2 == CreateSingleTask(acc.todoist, tasks[i], sid,
                                         idxOf[i], by, confirmed)
            IN CreateLoop(tasks, i + 1, ok, sid, by, confirmed,
                 [acc EXCEPT !.todoist = ext2,
                             !.created = Append(@,
                                [id |-> Len(ext2),
                                 content |-> FormatTaskContent(tasks[i]),
                                 pos |-> i])],
                 idxOf)
       ELSE CreateLoop(tasks, i + 1, ok, sid, by, confirmed,
                 [acc EXCEPT !.failed = Append(@, i)], idxOf)

CreateTasks(ext, tasks, sid, by, confirmed, conn, ok, idxOf) ==
  IF ~conn
  THEN [created |-> <<>>, failed |-> [i \in 1..Len(tasks) |-> i],
        offline |-> TRUE, todoist |-> ext]
  ELSE CreateLoop(tasks, 1, ok, sid, by, confirmed,
         [created |-> <<>>, failed |-> <<>>, offline |-> FALSE,
          todoist |-> ext], idxOf)

\* ----------------------------------------------------------------- parsers
\* A candidate line is a sequence of tokens: a word, a list marker ("1)"),
\* a dash, or a time expression "N min" (the one TIME_PATTERNS entry
\* /(\d+)\s*(m|mins?|minutes?|min|minuts?)\b/ matches).
Word(text) == [kind |-> "word", text |-> text, n |-> 0]
Marker == [kind |-> "marker", text |-> "1)", n |-> 0]
Dash == [kind |-> "dash", text |-> "-", n |-> 0]
Minutes(n) == [kind |-> "minutes", text |-> "min", n |-> n]

QUICK_ACTION_VERBS ==
  {"email", "emal", "emial", "mail", "call", "cal", "phone", "ping", "pign",
   "text", "txt", "msg", "dm", "d.m", "reply", "repli", "respond", "send",
   "snd", "sent", "file", "fil", "save", "pay", "pal", "payment", "log",
   "record", "check", "chek", "chck", "verify", "review", "reveiw", "reviw",
   "rev", "update", "updat", "updte"}

\* The sequence without its element at position i.
RemoveAt(s, i) == [k \in 1..(Len(s) - 1) |-> IF k < i THEN s[k] ELSE s[k + 1]]

\* cleaned_text.replace(/\s*[-–]\s*$/, '')
StripTrailingDash(text) ==
  IF text # <<>> /\ text[Len(text)].kind = "dash"
  THEN SubSeq(text, 1, Len(text) - 1)
  ELSE text

\* getDurationBucket(minutes, text)
GetDurationBucket(minutes, text) ==
  IF minutes # None
  THEN IF minutes[1] <= 5 THEN "2min"
       ELSE IF minutes[1] <= 15 THEN "10min"
       ELSE "30plus"
  ELSE IF text # <<>> /\ text[1].text \in QUICK_ACTION_VERBS
       THEN "10min"
       ELSE NoBucket

\* parseTime: the first time expression of the line gives the minutes and
\* is taken out of the text.
ParseTime(line) ==
  LET hits == { i \in DOMAIN line : line[i].kind = "minutes" }
      first == CHOOSE i \in hits : \A j \in hits : i <= j
      minutes == IF hits = {} THEN None ELSE Some(line[first].n)
      cleaned == IF hits = {} THEN line
                 ELSE StripTrailingDash(RemoveAt(line, first))
  IN [explicit_minutes |-> minutes,
      duration_bucket |-> GetDurationBucket(minutes, cleaned),
      cleaned_text |-> cleaned]

\* cleanTaskTitle: a leading list marker is removed.
CleanTaskTitle(text) ==
  IF text # <<>> /\ text[1].kind = "marker" THEN Tail(text) ELSE text

\* --------------------------------------------------------- parsers, on text
\* The parsers again, on the text itself.  A text is a string; the bullet
\* U+2022 and the en dash U+2013, which a string of this module cannot
\* hold, are written "@" and "=".
Bullet == "@"
EnDash == "="

\* A const of the source: the expression is evaluated once and F is given
\* its value.
With(e, F(_)) == CHOOSE r \in { F(v) : v \in {e} } : TRUE

\* The least and the greatest of a set of positions that has one.
Least(S) == CHOOSE i \in S : \A j \in S : i <= j
Greatest(S) == CHOOSE i \in S : \A j \in S : j <= i

\* The character of s at position i (from 1), "" past either end.
At(s, i) == IF i \in 1..Len(s) THEN SubSeq(s, i, i) ELSE ""

DigitChars == "0123456789"
LowerChars == "abcdefghijklmnopqrstuvwxyz"
UpperChars == "ABCDEFGHIJKLMNOPQRSTUVWXYZ"

\* The position of the character in the alphabet given, 0 when it has none.
IndexIn(chars, c) ==
  IF \E i \in 1..Len(chars) : At(chars, i) = c
  THEN CHOOSE i \in 1..Len(chars) : At(chars, i) = c
  ELSE 0

\* The classes \d, \w and \s of the regular expressions.
IsDigit(c) == IndexIn(DigitChars, c) > 0
IsWordChar(c) ==
  IsDigit(c) \/ IndexIn(LowerChars, c) > 0 \/ IndexIn(UpperChars, c) > 0 \/ c = "_"
IsSpace(c) == c \in {" ", "\t", "\n", "\r", "\f"}

\* String.prototype.toLowerCase
RECURSIVE ToLowerCase(_)
ToLowerCase(s) ==
  With(s, LAMBDA v :
    IF v = "" THEN ""
    ELSE With(IndexIn(UpperChars, At(v, 1)), LAMBDA k :
           (IF k > 0 THEN At(LowerChars, k) ELSE At(v, 1))
             \o ToLowerCase(SubSeq(v, 2, Len(v)))))

\* String.prototype.trim
Trim(s) ==
  With(s, LAMBDA v :
  With({ i \in 1..Len(v) : ~IsSpace(At(v, i)) }, LAMBDA keep :
    IF keep = {} THEN "" ELSE SubSeq(v, Least(keep), Greatest(keep))))

\* String.prototype.startsWith, from position i.
StartsWithAt(s, i, w) ==
  i + Len(w) - 1 <= Len(s) /\ SubSeq(s, i, i + Len(w) - 1) = w

\* The same, whatever the case of the letters of s (the flag i of a regular
\* expression); w is in lower case.
StartsWithAtAnyCase(s, i, w) ==
  i + Len(w) - 1 <= Len(s) /\ ToLowerCase(SubSeq(s, i, i + Len(w) - 1)) = w

\* The position after the longest run of digits (\d*), of white space (\s*)
\* and of word characters (\w*) that starts at position i.
DigitsEnd(s, i) ==
  CHOOSE j \in i..(Len(s) + 1) :
    ~IsDigit(At(s, j)) /\ \A k \in i..(j - 1) : IsDigit(At(s, k))
SpacesEnd(s, i) ==
  CHOOSE j \in i..(Len(s) + 1) :
    ~IsSpace(At(s, j)) /\ \A k \in i..(j - 1) : IsSpace(At(s, k))
WordEnd(s, i) ==
  CHOOSE j \in i..(Len(s) + 1) :
    ~IsWordChar(At(s, j)) /\ \A k \in i..(j - 1) : IsWordChar(At(s, k))

\* NaN is a number no parseInt of digits gives; every comparison with NaN
\* is false.
NaN == -1
Leq(x, y) == x # NaN /\ y # NaN /\ x <= y

\* parseInt: the value of the digits the text starts with, NaN when it
\* starts with none.
RECURSIVE DigitsValue(_, _)
DigitsValue(s, acc) ==
  With(s, LAMBDA v :
    IF v = "" \/ ~IsDigit(At(v, 1)) THEN acc
    ELSE DigitsValue(SubSeq(v, 2, Len(v)),
                     10 * acc + (IndexIn(DigitChars, At(v, 1)) - 1)))
ParseInt(s) == IF IsDigit(At(s, 1)) THEN DigitsValue(s, 0) ELSE NaN

\* A match of a regular expression: the positions of match[0] in the text
\* and the texts of the groups match[1] and match[2]; no match has from 0.
Match(from, to, g1, g2) == [from |-> from, to |-> to, g1 |-> g1, g2 |-> g2]
NoMatch == Match(0, 0, "", "")

\* The unit words of the alternations, each followed by \b: the run of word
\* characters at the position is one of them.
MinuteUnits == {"m", "min", "mins", "minute", "minutes"}
MinuteUnitsTypo == MinuteUnits \cup {"minut", "minuts"}
ShortUnits == {"m", "min"}
HourUnits == {"h", "hr", "hrs", "hour", "hours"}

\* (\d+)\s*(units)\b at position i of the text, whatever the case of its
\* letters (without the \s* when the pattern has none).
NumberUnitAt(s, i, units, spaces) ==
  With(DigitsEnd(s, i), LAMBDA d :
  With(IF spaces THEN SpacesEnd(s, d) ELSE d, LAMBDA u :
  With(WordEnd(s, u), LAMBDA w :
    IF d > i /\ ToLowerCase(SubSeq(s, u, w - 1)) \in units
    THEN Match(i, w - 1, SubSeq(s, i, d - 1), "")
    ELSE NoMatch)))

\* The range with its two bounds exchanged.
RangeAtLower(s, i) ==
  With(DigitsEnd(s, i), LAMBDA d :
  With(SpacesEnd(s, d), LAMBDA dash :
  With(SpacesEnd(s, dash + 1), LAMBDA second :
  With(NumberUnitAt(s, second, MinuteUnits, TRUE), LAMBDA upper :
    IF d > i /\ At(s, dash) \in {"-", EnDash} /\ upper # NoMatch
    THEN Match(i, upper.to, upper.g1, SubSeq(s, i, d - 1))
    ELSE NoMatch))))

\* (\d+)\s*[-–]\s*(\d+)\s*(m|mins?|minutes?|min)\b at position i
RangeAt(s, i) ==
  With(DigitsEnd(s, i), LAMBDA d :
  With(SpacesEnd(s, d), LAMBDA dash :
  With(SpacesEnd(s, dash + 1), LAMBDA second :
  With(NumberUnitAt(s, second, MinuteUnits, TRUE), LAMBDA upper :
    IF d > i /\ At(s, dash) \in {"-", EnDash} /\ upper # NoMatch
    THEN Match(i, upper.to, SubSeq(s, i, d - 1), upper.g1)
    ELSE NoMatch))))

\* The first of the words that the text has at position i, whatever the
\* case of its letters, "" when it has none of them (an alternation, tried
\* in order).
FirstWordAt(s, i, words) ==
  With({ k \in 1..Len(words) : StartsWithAtAnyCase(s, i, words[k]) },
       LAMBDA hits : IF hits = {} THEN "" ELSE words[Least(hits)])

\* (first)\s*(hour|hr|hrs?) at position i: no \b follows, so the match ends
\* with the first alternative found.
FixedAt(s, i, first) ==
  With(FirstWordAt(s, i, first), LAMBDA a :
  With(SpacesEnd(s, i + Len(a)), LAMBDA u :
  With(FirstWordAt(s, u, <<"hour", "hr", "hrs">>), LAMBDA b :
    IF a # "" /\ b # ""
    THEN Match(i, u + Len(b) - 1, a, b)
    ELSE NoMatch)))

\* (qualifier)\s+(\d+)\s*(m|mins?|minutes?|min)\b at position i, after an
\* optional "~" when the pattern starts with ~?.
QualifiedAt(s, i, qualifiers, tilde) ==
  With(IF tilde /\ At(s, i) = "~" THEN i + 1 ELSE i, LAMBDA q :
  With(FirstWordAt(s, q, qualifiers), LAMBDA a :
  With(SpacesEnd(s, q + Len(a)), LAMBDA sp :
  With(NumberUnitAt(s, sp, MinuteUnits, TRUE), LAMBDA n :
    IF a # "" /\ sp > q + Len(a) /\ n # NoMatch
    THEN Match(i, n.to, a, n.g1)
    ELSE NoMatch))))

\* TIME_PATTERNS, in the order of the source.
TIME_PATTERNS ==
  << [regex |-> "range", handler |-> "range", fixed_minutes |-> 0],
     [regex |-> "half", handler |-> "fixed", fixed_minutes |-> 30],
     [regex |-> "quarter", handler |-> "fixed", fixed_minutes |-> 15],
     [regex |-> "hours", handler |-> "hours", fixed_minutes |-> 0],
     [regex |-> "about", handler |-> "minutes", fixed_minutes |-> 0],
     [regex |-> "roughly", handler |-> "minutes", fixed_minutes |-> 0],
     [regex |-> "minutes", handler |-> "minutes", fixed_minutes |-> 0],
     [regex |-> "short", handler |-> "minutes", fixed_minutes |-> 0] >>

\* The regular expression of a pattern at position i of the text (every
\* pattern has the flag i).
RegexAt(regex, s, i) ==
  CASE regex = "range" -> RangeAt(s, i)
    [] regex = "half" -> FixedAt(s, i, <<"half", "hlf">>)
    [] regex = "quarter" -> FixedAt(s, i, <<"quarter", "1/4">>)
    [] regex = "hours" -> NumberUnitAt(s, i, HourUnits, TRUE)
    [] regex = "about" -> QualifiedAt(s, i, <<"about", "abt", "around">>, TRUE)
    [] regex = "roughly" ->
         QualifiedAt(s, i, <<"roughly", "rughly", "aprox", "approx">>, FALSE)
    [] regex = "minutes" -> NumberUnitAt(s, i, MinuteUnitsTypo, TRUE)
    [] regex = "short" -> NumberUnitAt(s, i, ShortUnits, FALSE)

\* text.match(pattern.regex): the leftmost match.
RegexMatch(regex, text) ==
  With({ i \in 1..Len(text) : RegexAt(regex, text, i) # NoMatch },
       LAMBDA hits :
         IF hits = {} THEN NoMatch
         ELSE With(Least(hits), LAMBDA i : RegexAt(regex, text, i)))

\* cleaned_text.replace(/\s*[-–]\s*$/, ''): a dash that only white space
\* follows is removed with the white space around it.
WithoutTrailingDash(text) ==
  With(text, LAMBDA v :
  With({ i \in 0..Len(v) : ~IsSpace(At(v, i)) }, LAMBDA ink :
  With(Greatest(ink), LAMBDA last :
    IF last > 0 /\ At(v, last) \in {"-", EnDash}
    THEN SubSeq(v, 1, Greatest(ink \ {last}))
    ELSE v)))

\* getDurationBucket(minutes, text)
getDurationBucket(minutes, text) ==
  IF minutes # None
  THEN IF Leq(minutes[1], 5) THEN "2min"
       ELSE IF Leq(minutes[1], 15) THEN "10min"
       ELSE "30plus"
  ELSE With(text, LAMBDA v :
       With({ i \in 1..Len(v) : At(v, i) = " " }, LAMBDA cut :
       With(ToLowerCase(IF cut = {} THEN v ELSE SubSeq(v, 1, Least(cut) - 1)),
            LAMBDA firstWord :
              IF v # "" /\ firstWord \in QUICK_ACTION_VERBS
              THEN "10min"
              ELSE NoBucket)))

\* for (const pattern of TIME_PATTERNS): the position of the first pattern
\* whose regular expression matches the text, 0 when none does.
FirstPattern(text) ==
  With({ p \in DOMAIN TIME_PATTERNS :
           RegexMatch(TIME_PATTERNS[p].regex, text) # NoMatch },
       LAMBDA hits : IF hits = {} THEN 0 ELSE Least(hits))

\* switch (pattern.handler)
Handled(pattern, match) ==
  CASE pattern.handler = "minutes" -> ParseInt(match.g1)
    [] pattern.handler = "hours" ->
         IF ParseInt(match.g1) = NaN THEN NaN ELSE ParseInt(match.g1) * 60
    [] pattern.handler = "range" -> ParseInt(match.g2)
    [] pattern.handler = "fixed" -> pattern.fixed_minutes

\* text.replace(pattern.regex, '').trim(), then without its trailing dash.
Cleaned(text, match) ==
  Trim(WithoutTrailingDash(
         Trim(SubSeq(text, 1, match.from - 1)
                \o SubSeq(text, match.to + 1, Len(text)))))

\* parseTime(text)
parseTime(text) ==
  With(FirstPattern(text), LAMBDA p :
    IF p = 0
    THEN [explicit_minutes |-> None,
          duration_bucket |-> getDurationBucket(None, text),
          cleaned_text |-> text]
    ELSE With(RegexMatch(TIME_PATTERNS[p].regex, text), LAMBDA match :
         With(Handled(TIME_PATTERNS[p], match), LAMBDA explicit_minutes :
         With(Cleaned(text, match), LAMBDA cleaned_text :
           [explicit_minutes |-> Some(explicit_minutes),
            duration_bucket |->
              getDurationBucket(Some(explicit_minutes), cleaned_text),
            cleaned_text |-> cleaned_text]))))

\* String.prototype.includes
Contains(s, sub) == \E i \in 1..Len(s) : StartsWithAt(s, i, sub)

\* String.prototype.split on a one-character separator.
RECURSIVE Split(_, _)
Split(s, sep) ==
  With(s, LAMBDA v :
  With({ i \in 1..Len(v) : At(v, i) = sep }, LAMBDA cut :
    IF cut = {} THEN <<v>>
    ELSE With(Least(cut), LAMBDA i :
           <<SubSeq(v, 1, i - 1)>> \o Split(SubSeq(v, i + 1, Len(v)), sep))))

\* lines.map(l => l.trim())
TrimAll(lines) ==
  With(lines, LAMBDA v : [i \in DOMAIN v |-> Trim(v[i])])

\* lines.filter(l => l.length > n)
LongerThan(lines, n) == SelectSeq(lines, LAMBDA l : Len(l) > n)

\* The positions where /\d+\)/ ends: a ")" that follows a digit.
NumberedMarkers(s) ==
  { i \in 1..Len(s) : At(s, i) = ")" /\ IsDigit(At(s, i - 1)) }

\* singleLine.split(/\d+\)/): the marker taken out is the ")" with the run
\* of digits before it.
RECURSIVE SplitNumbered(_)
SplitNumbered(s) ==
  With(s, LAMBDA v :
  With(NumberedMarkers(v), LAMBDA markers :
    IF markers = {} THEN <<v>>
    ELSE With(Least(markers), LAMBDA close :
         With(CHOOSE k \in 1..close :
                /\ \A j \in k..(close - 1) : IsDigit(At(v, j))
                /\ ~IsDigit(At(v, k - 1)),
              LAMBDA open :
                <<SubSeq(v, 1, open - 1)>>
                  \o SplitNumbered(SubSeq(v, close + 1, Len(v)))))))

\* singleLine.split(/\s*•\s*/): the bullet is taken out with the white
\* space on both sides of it.
RECURSIVE SplitBullets(_)
SplitBullets(s) ==
  With(s, LAMBDA v :
  With({ i \in 1..Len(v) : At(v, i) = Bullet }, LAMBDA cut :
    IF cut = {} THEN <<v>>
    ELSE With(Least(cut), LAMBDA i :
         With(Greatest({ k \in 0..(i - 1) : ~IsSpace(At(v, k)) }),
              LAMBDA before :
                <<SubSeq(v, 1, before)>>
                  \o SplitBullets(SubSeq(v, SpacesEnd(v, i + 1), Len(v)))))))

\* The time expressions of the splitter,
\* /\d+\s*(m|mins?|minutes?|h|hours?)\b/gi: where each match starts.
SplitterUnits == {"m", "min", "mins", "minute", "minutes", "h", "hour", "hours"}

TimeExpressions(text) ==
  With(text, LAMBDA v :
    { i \in 1..Len(v) :
        /\ ~IsDigit(At(v, i - 1))
        /\ NumberUnitAt(v, i, SplitterUnits, TRUE) # NoMatch })

\* /^(email|call|review|...)/i.test(part)
TaskVerbs ==
  <<"email", "call", "review", "send", "update", "create", "check", "plan",
    "draft", "write", "schedule", "contact", "ping", "text", "dm", "file",
    "pay">>

StartsWithVerb(part) == FirstWordAt(part, 1, TaskVerbs) # ""

\* The loop of smartCommaSplit over the parts from position k on.
RECURSIVE CommaLoop(_, _, _, _)
CommaLoop(parts, k, tasks, currentTask) ==
  With(tasks, LAMBDA done :
  With(currentTask, LAMBDA current :
    IF k > Len(parts)
    THEN IF current # "" THEN Append(done, current) ELSE done
    ELSE With(parts[k], LAMBDA part :
         With(TimeExpressions(part) # {}, LAMBDA hasTime :
           IF (hasTime \/ StartsWithVerb(part)) /\ current # ""
           THEN CommaLoop(parts, k + 1, Append(done, current), part)
           ELSE CommaLoop(parts, k + 1, done,
                          IF current # ""
                          THEN current \o ", " \o part
                          ELSE part)))))

\* smartCommaSplit(text)
smartCommaSplit(text) ==
  With(TrimAll(Split(text, ",")), LAMBDA parts : CommaLoop(parts, 1, <<>>, ""))

\* extractCandidateLines(text)
extractCandidateLines(text) ==
  With(LongerThan(TrimAll(Split(text, "\n")), 0), LAMBDA lines :
  With(IF Len(lines) # 1 THEN lines
       ELSE With(lines[1], LAMBDA singleLine :
         IF Cardinality(NumberedMarkers(singleLine)) > 1
         THEN LongerThan(TrimAll(Tail(SplitNumbered(singleLine))), 0)
         ELSE IF Contains(singleLine, " " \o Bullet \o " ")
         THEN Tail(SplitBullets(singleLine))
         ELSE IF \/ Cardinality(TimeExpressions(singleLine)) > 1
                 \/ Contains(singleLine, ",")
         THEN smartCommaSplit(singleLine)
         ELSE lines),
       LAMBDA split : LongerThan(split, 2)))

\* ----------------------------------------------------------- ClaudeService
\* The candidate lines extractCandidateLines may return.
LinePool ==
  { <<Word("email")>>,
    <<Word("draft"), Dash, Minutes(30)>>,
    <<Marker, Word("draft")>> }

LineLists == UNION { [1..n -> LinePool] : n \in 1..MaxTasks }

\* An element of the array the service answers with: null, or an object
\* whose title is missing or empty (None) or a text, and which may carry
\* fields of its own for raw, explicit_minutes and duration_bucket.
NullElement ==
  [null |-> TRUE, title |-> None, is_project_candidate |-> FALSE,
   raw |-> None, explicit_minutes |-> None, duration_bucket |-> NoBucket]

ElementPool ==
  { NullElement,
    [null |-> FALSE, title |-> Some(<<Word("send")>>),
     is_project_candidate |-> TRUE, raw |-> None,
     explicit_minutes |-> None, duration_bucket |-> NoBucket],
    [null |-> FALSE, title |-> None, is_project_candidate |-> FALSE,
     raw |-> None, explicit_minutes |-> Some(2), duration_bucket |-> "2min"] }

\* What client.messages.create does: it throws, it answers with a content
\* that is not text, with a text that is not JSON, with JSON that is not an
\* array, or with a JSON array.
Answer(kind, elements) == [kind |-> kind, elements |-> elements]

Answers ==
  { Answer(k, <<>>) : k \in {"throws", "not text", "not json", "not array"} }
    \cup { Answer("array", e) :
             e \in UNION { [1..n -> ElementPool] : n \in 0..(MaxTasks + 1) } }

Inputs == { [lines |-> l, service |-> a] : l \in LineLists, a \in Answers }

NoInput == [lines |-> <<>>, service |-> Answer("none", <<>>)]

\* parseAndClassify, the deterministic part: lines.map(line => ...)
Preprocess(line) ==
  LET timeResult == ParseTime(line) IN
  [raw |-> line,
   title |-> CleanTaskTitle(timeResult.cleaned_text),
   explicit_minutes |-> timeResult.explicit_minutes,
   duration_bucket |-> timeResult.duration_bucket,
   is_project_candidate |-> FALSE]

\* The catch branch: preprocessed.map(task => ({...task,
\* is_project_candidate: task.duration_bucket === '30plus'}))
Fallback(lines) ==
  [i \in DOMAIN lines |->
     [Preprocess(lines[i]) EXCEPT
        !.is_project_candidate = (Preprocess(lines[i]).duration_bucket = "30plus")]]

\* validateParsedTasks on one element the service gave:
\* raw: task.raw || '', title: task.title || ''
ValidateParsedTask(task) ==
  [raw |-> IF task.raw = None THEN <<>> ELSE task.raw[1],
   title |-> IF task.title = None THEN <<>> ELSE task.title[1],
   explicit_minutes |-> task.explicit_minutes,
   duration_bucket |-> task.duration_bucket,
   is_project_candidate |-> task.is_project_candidate]

\* result.map((task, idx) => ...): the service's title and flag over our
\* time parsing; an element past the last preprocessed task is kept as the
\* service gave it.
Fixed(task, ourTask) ==
  [raw |-> ourTask.raw,
   title |-> IF task.title = None THEN ourTask.title ELSE task.title[1],
   explicit_minutes |-> ourTask.explicit_minutes,
   duration_bucket |-> ourTask.duration_bucket,
   is_project_candidate |->
     (task.is_project_candidate \/ ourTask.is_project_candidate)]

\* parseAndClassify(inputText), from the candidate lines on.  The service
\* call is made before the try block: when it throws, parseAndClassify
\* throws.  Inside the try block, a content that is not text, a text
\* JSON.parse rejects, a value with no map method and a null element (its
\* title or raw is read) all end in the catch branch.
ParseAndClassify(lines, service) ==
  IF service.kind = "throws"
  THEN [threw |-> TRUE, tasks |-> <<>>]
  ELSE IF service.kind # "array"
  THEN [threw |-> FALSE, tasks |-> Fallback(lines)]
  ELSE IF \E k \in DOMAIN service.elements : service.elements[k].null
  THEN [threw |-> FALSE, tasks |-> Fallback(lines)]
  ELSE [threw |-> FALSE,
        tasks |-> [idx \in DOMAIN service.elements |->
                     IF idx \in DOMAIN lines
                     THEN Fixed(service.elements[idx], Preprocess(lines[idx]))
                     ELSE ValidateParsedTask(service.elements[idx])]]

\* ------------------------------------------------------- texts given
\* Candidate lines: a list marker or none, a wording, a time expression or
\* none; and the lines that start with their time expression.
ListMarkers == {"", "1) ", "- "}

Wordings ==
  {"email team", "draft proposal for Smith", "call John", "Email Aaron",
   "review contracts", "quick email"}

TimeSuffixes ==
  {"", " - 30 minutes", " (2m)", " - 10 min", " 2 hours", " about 10 mins",
   " around 20 mins", " roughly 5 mins", " approx 15 mins"}

CandidateLines ==
  { m \o w \o t : m \in ListMarkers, w \in Wordings, t \in TimeSuffixes }
    \cup {"half hour deck edits", "15-30 mins to clean CRM",
          "quarter hr standup", "budget thing ~20 minutes"}

\* Texts a user sends to organize, with the separators the splitter knows.
Blobs ==
  {"1) email Aaron 2) review contract - 30 min",
   "email Sam - 10 min",
   "email Aaron about invoice, 2 mins",
   "email Sam, call Bob,",
   "email Sam, call Bob\nping Al",
   "1) email Sam, call Bob 2) ping Al @ pay rent",
   "notes @ email Sam @ call Bob, ping Al",
   "1) ok 2) review deck",
   "buy milk, eggs, bread",
   "write memo 10 min review deck 5 min",
   "plan trip, book hotel, call mom"}

Texts == CandidateLines \cup Blobs

TextInputs == { [text |-> t] : t \in Texts }

\* ------------------------------------------------------------------- state
\* The response keeps the handler that returned, the type of the
\* FlowCoachResponse and which of the handler's messages it carries.
NoResponse == [op |-> "none", type |-> "none", message |-> "none"]

RespondWith(op, type, message) ==
  response' = [op |-> op, type |-> type, message |-> message]

Respond(op, type) == RespondWith(op, type, type)

\* What a service query or update returned last.
NoReturn == [op |-> "none", key |-> <<>>, value |-> None, at |-> 0]

IdleCall ==
  [pc |-> "idle", userId |-> "u1", sid |-> 0, parsed |-> <<>>, i |-> 0,
   tasksToCreate |-> <<>>, created |-> <<>>, failed |-> <<>>]

\* The state after construction, whatever organize is given later.
Start ==
  /\ previewMode \in PreviewModes
  /\ sessions = <<>>
  /\ created_tasks = {}
  /\ todoist = <<>>
  /\ threadCache = [k \in ThreadKeys |-> None]
  /\ threadDb = [k \in ThreadKeys |-> None]
  /\ now = 0
  /\ calls = [c \in Slots |-> IdleCall]
  /\ log = <<>>
  /\ response = NoResponse
  /\ pendingDelete = {}
  /\ written = [k \in ThreadKeys |-> None]
  /\ returned = NoReturn

Init == Start /\ input = NoInput

Quiet == \A c \in Slots : calls[c].pc = "idle"

InFlight == { c \in Slots : calls[c].pc # "idle" }

\* History: accept has been invoked on the session (the user confirmed it).
Confirmed(sid) ==
  \/ \E k \in DOMAIN log : log[k].sid = sid
  \/ \E c \in InFlight : calls[c].sid = sid

Identity(n) == [i \in 1..n |-> i]

\* minutes <= 5 ? '2min' : minutes <= 15 ? '10min' : '30plus'
BucketOfMinutes(minutes) ==
  IF minutes <= 5 THEN "2min" ELSE IF minutes <= 15 THEN "10min" ELSE "30plus"

\* The time texts a user sends: a number of minutes, or a text the pattern
\* /(\d+)\s*(m|mins?|minutes?|h|hours?)/i does not match (None).
TimeTexts == {None, Some(5), Some(16)}

\* ----------------------------------------------------------------- organize
\* parsed.some(t => !t.explicit_minutes && !t.duration_bucket)
NeedsTime(parsed) ==
  \E i \in DOMAIN parsed :
    /\ (parsed[i].explicit_minutes = None \/ parsed[i].explicit_minutes = Some(0))
    /\ parsed[i].duration_bucket = NoBucket

\* The preview test taken the wrong way round.
ShowsPreviewInverted(mode) == mode = "off"

\* this.previewMode !== 'off'
ShowsPreview(mode) == mode # "off"

TaskCreatedUpdate(id, task) ==
  [NoThreadUpdate EXCEPT
     !.lastIntent = Some("task_created"),
     !.lastCreatedTaskId = Some(id),
     !.lastTaskTitle = Some(task.title),
     !.context = Some([duration_bucket |-> task.duration_bucket,
                       explicit_minutes |-> task.explicit_minutes])]

\* organize(inputText, userId): parsed is what parseAndClassify returned for
\* the input (an empty result returns an error and stores nothing).  The
\* session stays pending on every path, the auto-create one included.
Organize(userId, parsed) ==
  /\ Quiet
  /\ Len(sessions) < MaxSessions
  /\ \E t \in Clock(now) :
       LET sid == Len(sessions) + 1 IN
       /\ sessions' = Append(sessions, NewSession(userId, parsed, t))
       /\ UNCHANGED <<previewMode, input, returned, created_tasks, calls, log>>
       /\ IF NeedsTime(parsed)
          THEN /\ Respond("organize", "needs_time")
               /\ now' = t
               /\ UNCHANGED <<todoist, threadCache, threadStore>>
          ELSE IF ShowsPreview(previewMode)
          THEN /\ Respond("organize", "preview")
               /\ now' = t
               /\ UNCHANGED <<todoist, threadCache, threadStore>>
          ELSE \E conn \in BOOLEAN, ok \in SUBSET (1..Len(parsed)) :
                 /\ ~conn => ok = {}
                 /\ Len(todoist) + Cardinality(ok) <= MaxExternal
                 /\ LET r == CreateTasks(todoist, parsed, sid, "organize",
                                         FALSE, conn, ok, Identity(Len(parsed)))
                    IN /\ todoist' = r.todoist
                       /\ IF Len(r.created) > 0
                          THEN \E t2 \in Clock(t) :
                                 LET th == UpdateThreadState(threadCache, threadDb,
                                             pendingDelete, <<userId, "DM">>,
                                             TaskCreatedUpdate(r.created[1].id, parsed[1]),
                                             t2)
                                 IN /\ threadCache' = th.cache
                                    /\ threadDb' = th.db
                                    /\ pendingDelete' \in AfterInsert(th.pending, <<userId, "DM">>)
                                    /\ written' = [written EXCEPT ![<<userId, "DM">>] = Some(th.state)]
                                    /\ now' = t2
                                    /\ Respond("organize", "success")
                          ELSE /\ now' = t
                               /\ UNCHANGED <<threadCache, threadStore>>
                               /\ Respond("organize", "error")

\* organize(inputText, userId) on the text given: parseAndClassify throws
\* (the catch of organize answers), returns no task, or returns the tasks
\* organize goes on with.
OrganizeText(userId) ==
  LET r == ParseAndClassify(input.lines, input.service) IN
  IF r.threw \/ r.tasks = <<>>
  THEN /\ Quiet
       /\ RespondWith("organize", "error",
                      IF r.threw THEN "processing error" ELSE "no tasks")
       /\ UNCHANGED <<previewMode, input, returned, sessions, created_tasks,
                      todoist, threadCache, threadStore, now, calls, log>>
  ELSE Organize(userId, r.tasks)

\* ------------------------------------------------------ updateTimeEstimate
UpdateTimeEstimate(userId, timeText) ==
  /\ Quiet
  /\ UNCHANGED <<previewMode, input, returned, created_tasks, calls, log>>
  /\ IF GetLastPendingSession(sessions, userId) = {} \/ timeText = None
     THEN /\ Respond("updateTimeEstimate", "error")
          /\ UNCHANGED <<sessions, todoist, threadCache, threadStore, now>>
     ELSE \E sid \in GetLastPendingSession(sessions, userId),
             conn \in BOOLEAN, ok \in SUBSET {1} :
            LET minutes == timeText[1]
                task == [sessions[sid].parsed[1] EXCEPT
                           !.explicit_minutes = Some(minutes),
                           !.duration_bucket = BucketOfMinutes(minutes)]
                r == CreateTasks(todoist, <<task>>, sid, "updateTimeEstimate",
                                 Confirmed(sid), conn, ok, <<1>>)
            IN /\ ~conn => ok = {}
               /\ Len(todoist) + Cardinality(ok) <= MaxExternal
               /\ todoist' = r.todoist
               /\ IF Len(r.created) > 0
                  THEN \E t \in Clock(now) : \E t2 \in Clock(t) :
                         LET th == UpdateThreadState(threadCache, threadDb,
                                     pendingDelete, <<userId, "DM">>,
                                     TaskCreatedUpdate(r.created[1].id, task), t2)
                         IN /\ pendingDelete' \in AfterInsert(th.pending, <<userId, "DM">>)
                            /\ written' = [written EXCEPT ![<<userId, "DM">>] = Some(th.state)]
                            /\ sessions' = UpdateSession(sessions, sid, "accepted",
                                             Some([k \in DOMAIN r.created |-> r.created[k].id]), t)
                            /\ threadCache' = th.cache
                            /\ threadDb' = th.db
                            /\ now' = t2
                            /\ Respond("updateTimeEstimate", "success")
                  ELSE /\ UNCHANGED <<sessions, threadCache, threadStore, now>>
                       /\ Respond("updateTimeEstimate", "error")

\* --------------------------------------------------------------- breakdown
\* What breakdownProject did: it threw (the service call failed, or its
\* answer did not parse), it returned the task with no subtasks, or it
\* returned the task with subtasks.
BreakdownOutcomes == {"throws", "empty", "subtasks"}

\* The test that takes every outcome for a list of subtasks.
HasSubtasksAlways(outcome) == TRUE

\* !(!brokenDown.subtasks || brokenDown.subtasks.length === 0)
HasSubtasks(outcome) == outcome = "subtasks"

\* taskRef is "#n".  The broken-down task is put in the response only; the
\* row keeps its parsed_json.
Breakdown(userId, taskRef, outcome) ==
  /\ Quiet
  /\ UNCHANGED <<previewMode, input, returned, created_tasks, todoist,
                 threadCache, threadStore, calls, log>>
  /\ IF GetLastPendingSession(sessions, userId) = {}
     THEN /\ RespondWith("breakdown", "error", "no pending session")
          /\ UNCHANGED <<sessions, now>>
     ELSE \E sid \in GetLastPendingSession(sessions, userId) :
            IF taskRef \notin DOMAIN sessions[sid].parsed
            THEN /\ RespondWith("breakdown", "error", "task not found")
                 /\ UNCHANGED <<sessions, now>>
            ELSE IF outcome = "throws"
            THEN /\ RespondWith("breakdown", "error", "failed to break down")
                 /\ UNCHANGED <<sessions, now>>
            ELSE IF ~HasSubtasks(outcome)
            THEN /\ RespondWith("breakdown", "error", "could not break down")
                 /\ UNCHANGED <<sessions, now>>
            ELSE \E t \in Clock(now) :
                   /\ sessions' = UpdateSession(sessions, sid, "pending", None, t)
                   /\ now' = t
                   /\ RespondWith("breakdown", "preview", "broke down")

\* ------------------------------------------------------------------ resume
Resume(userId) ==
  /\ Quiet
  /\ UNCHANGED <<previewMode, input, returned, sessions, created_tasks, todoist, threadCache,
                 threadStore, now, calls, log>>
  /\ IF GetLastPendingSession(sessions, userId) = {}
     THEN Respond("resume", "error")
     ELSE Respond("resume", "preview")

\* ----------------------------------------------------------------- discard
Discard(userId) ==
  /\ Quiet
  /\ UNCHANGED <<previewMode, input, returned, created_tasks, todoist, threadCache, threadStore,
                 calls, log>>
  /\ IF GetLastPendingSession(sessions, userId) = {}
     THEN /\ Respond("discard", "error")
          /\ UNCHANGED <<sessions, now>>
     ELSE \E sid \in GetLastPendingSession(sessions, userId), t \in Clock(now) :
            /\ sessions' = UpdateSession(sessions, sid, "discarded", None, t)
            /\ now' = t
            /\ Respond("discard", "success")

\* ---------------------------------------------------------------- clearAll
ClearAll(userId) ==
  /\ Quiet
  /\ UNCHANGED <<previewMode, input, returned, created_tasks, todoist, threadCache, threadStore,
                 calls, log>>
  /\ \E t \in Clock(now) :
       /\ sessions' = ClearAllPendingSessions(sessions, userId, t)
       /\ now' = t
  /\ Respond("clearAll", "success")

\* ------------------------------------------------------------------ accept
\* One action per await of FlowCoach.accept and of the createTasks it calls.
SetCall(c, r) == calls' = [calls EXCEPT ![c] = r]

LogEntry(call, offline, type) ==
  [sid |-> call.sid,
   todo |-> Range(call.tasksToCreate),
   created |-> { call.tasksToCreate[call.created[k].pos] : k \in DOMAIN call.created },
   failed |-> Range(call.failed),
   offline |-> offline]

Return(c, offline, type) ==
  /\ SetCall(c, IdleCall)
  /\ log' = Append(log, LogEntry(calls[c], offline, type))
  /\ Respond("accept", type)

\* const session = sessionId ? getSession(sessionId) : getLastPendingSession(userId)
\* sessionId 0 stands for the argument left out.
AcceptLookup(ss, userId, sessionId) ==
  IF sessionId # 0 THEN GetSession(ss, sessionId)
  ELSE GetLastPendingSession(ss, userId)

AcceptBegin(c, userId, sessionId) ==
  /\ calls[c].pc = "idle"
  /\ Len(log) + Cardinality(InFlight) < MaxAccepts
  /\ UNCHANGED <<previewMode, input, returned, sessions, created_tasks, todoist, threadCache,
                 threadStore, now, log>>
  /\ IF AcceptLookup(sessions, userId, sessionId) = {}
     THEN /\ Respond("accept", "error")
          /\ UNCHANGED calls
     ELSE \E sid \in AcceptLookup(sessions, userId, sessionId) :
            /\ SetCall(c, [IdleCall EXCEPT !.pc = "check", !.userId = userId,
                             !.sid = sid, !.parsed = sessions[sid].parsed,
                             !.i = 1])
            /\ UNCHANGED response

\* for (const task of session.parsed): await isTaskAlreadyCreated(...)
AcceptCheck(c) ==
  LET call == calls[c]
      task == call.parsed[call.i]
      todo == IF IsTaskAlreadyCreated(created_tasks, call.sid, task)
              THEN call.tasksToCreate
              ELSE Append(call.tasksToCreate, call.i)
  IN /\ call.pc = "check"
     /\ UNCHANGED <<previewMode, input, returned, sessions, created_tasks, todoist, threadCache,
                    threadStore, now>>
     /\ IF call.i < Len(call.parsed)
        THEN /\ SetCall(c, [call EXCEPT !.i = call.i + 1, !.tasksToCreate = todo])
             /\ UNCHANGED <<log, response>>
        ELSE IF todo = <<>>
        THEN /\ SetCall(c, IdleCall)
             /\ log' = Append(log, LogEntry(call, FALSE, "success"))
             /\ Respond("accept", "success")
        ELSE /\ SetCall(c, [call EXCEPT !.pc = "connect", !.tasksToCreate = todo])
             /\ UNCHANGED <<log, response>>

\* createTasks: await this.testConnection()
AcceptConnect(c, conn) ==
  LET call == calls[c] IN
  /\ call.pc = "connect"
  /\ UNCHANGED <<previewMode, input, returned, sessions, created_tasks, todoist, threadCache,
                 threadStore, now, log, response>>
  /\ IF conn
     THEN SetCall(c, [call EXCEPT !.pc = "create", !.i = 1])
     ELSE SetCall(c, [call EXCEPT !.pc = "offline",
                        !.failed = call.tasksToCreate])

\* createTasks: await this.createSingleTask(task), the POST succeeding or
\* throwing.
AcceptCreate(c, posted) ==
  LET call == calls[c]
      idx == call.tasksToCreate[call.i]
      task == call.parsed[idx]
      ext2 == CreateSingleTask(todoist, task, call.sid, idx, "accept", TRUE)
      next == IF call.i < Len(call.tasksToCreate)
              THEN [pc |-> "create", i |-> call.i + 1]
              ELSE [pc |-> "record", i |-> 1]
  IN /\ call.pc = "create"
     /\ posted => Len(todoist) < MaxExternal
     /\ UNCHANGED <<previewMode, input, returned, sessions, created_tasks, threadCache,
                    threadStore, now, log, response>>
     /\ IF posted
        THEN /\ todoist' = ext2
             /\ SetCall(c, [call EXCEPT !.pc = next.pc, !.i = next.i,
                              !.created = Append(@,
                                 [id |-> Len(ext2),
                                  content |-> FormatTaskContent(task),
                                  pos |-> call.i])])
        ELSE /\ UNCHANGED todoist
             /\ SetCall(c, [call EXCEPT !.pc = next.pc, !.i = next.i,
                              !.failed = Append(@, idx)])

\* The offline branch marking the session pushed.
OfflineStatusPushed == "pushed"

\* The status the offline branch writes: updateSession(session.id, 'pending')
OfflineStatus == "pending"

\* if (result.offline): updateSession(session.id, 'pending'), return error
AcceptOffline(c) ==
  LET call == calls[c] IN
  /\ call.pc = "offline"
  /\ UNCHANGED <<previewMode, input, returned, created_tasks, todoist, threadCache, threadStore>>
  /\ \E t \in Clock(now) :
       /\ sessions' = UpdateSession(sessions, call.sid, OfflineStatus, None, t)
       /\ now' = t
  /\ Return(c, TRUE, "error")

\* result.created.find(t => t.content.includes(task.title) ||
\*   task.title.includes(t.content.replace(/^\[[^\]]+\]\s*/, '')))?.id
\* (no content of the model starts with a bracketed prefix)
FindCreated(created, task) ==
  LET hits == { k \in DOMAIN created :
                  \/ Includes(created[k].content, task.title)
                  \/ Includes(task.title, created[k].content) }
  IN IF hits = {} THEN None
     ELSE Some(created[CHOOSE k \in hits : \A k2 \in hits : k <= k2].id)

\* for (const task of tasksToCreate): await recordTaskCreated(session.id,
\* task, todoistTask?.id)
AcceptRecord(c) ==
  LET call == calls[c]
      task == call.parsed[call.tasksToCreate[call.i]]
  IN /\ call.pc = "record"
     /\ UNCHANGED <<previewMode, input, returned, sessions, todoist, threadCache, threadStore,
                    now, log, response>>
     /\ created_tasks' = RecordTaskCreated(created_tasks, call.sid, task,
                                           FindCreated(call.created, task))
     /\ IF call.i < Len(call.tasksToCreate)
        THEN SetCall(c, [call EXCEPT !.i = call.i + 1])
        ELSE SetCall(c, [call EXCEPT !.pc = "push"])

\* updateSession(session.id, 'pushed', createdIds), then the response:
\* success when nothing failed, warning otherwise.
AcceptPush(c) ==
  LET call == calls[c]
      createdIds == [k \in DOMAIN call.created |-> call.created[k].id]
  IN /\ call.pc = "push"
     /\ UNCHANGED <<previewMode, input, returned, created_tasks, todoist, threadCache, threadStore>>
     /\ \E t \in Clock(now) :
          /\ sessions' = UpdateSession(sessions, call.sid, "pushed",
                                       Some(createdIds), t)
          /\ now' = t
     /\ Return(c, FALSE, IF call.failed = <<>> THEN "success" ELSE "warning")

\* The process stops while accept calls are in flight: what is in memory
\* (the calls, the state cache) is lost, the tables (kept in the file at
\* dbPath) and Todoist remain.
Crash ==
  /\ InFlight # {}
  /\ calls' = [c \in Slots |-> IdleCall]
  /\ threadCache' = [k \in ThreadKeys |-> None]
  /\ UNCHANGED <<previewMode, input, returned, sessions, created_tasks, todoist, threadStore,
                 now, log, response>>

\* The request createTasks awaits (GET /projects of testConnection, POST
\* /tasks of createSingleTask) gets no answer: the axios client is created
\* with no timeout, the await does not settle and accept does not go on.
AcceptHang(c) ==
  /\ calls[c].pc \in {"connect", "create"}
  /\ SetCall(c, [calls[c] EXCEPT !.pc = "hung"])
  /\ UNCHANGED <<previewMode, input, returned, sessions, created_tasks,
                 todoist, threadCache, threadStore, now, log, response>>

\* --------------------------------------------- ThreadStateService, by call
MaxAdvances == 2

\* The threads of the users who send requests.
CallerKeys == Callers \X Channels

ThreadUpdates ==
  { [NoThreadUpdate EXCEPT !.lastIntent = Some("organize"),
                           !.lastSessionId = Some(1)],
    [NoThreadUpdate EXCEPT !.lastTaskTitle = Some(TitleX)],
    [NoThreadUpdate EXCEPT !.lastIntent = Some(Null),
                           !.context = Some([duration_bucket |-> "2min",
                                             explicit_minutes |-> None])] }

Return2(op, key, value) ==
  returned' = [op |-> op, key |-> key, value |-> value, at |-> now]

\* getThreadState(userId, channelId)
ThreadRead(key) ==
  LET got == GetThreadState(threadCache, threadDb, pendingDelete, key, now) IN
  /\ threadCache' = got.cache
  /\ threadDb' = got.db
  /\ pendingDelete' = got.pending
  /\ Return2("getThreadState", key, got.state)
  /\ UNCHANGED <<previewMode, input, sessions, created_tasks, todoist, now,
                 calls, log, response, written>>

\* updateThreadState(userId, channelId, update)
ThreadWrite(key, update) ==
  LET th == UpdateThreadState(threadCache, threadDb, pendingDelete, key,
                              update, now) IN
  /\ threadCache' = th.cache
  /\ threadDb' = th.db
  /\ pendingDelete' \in AfterInsert(th.pending, key)
  /\ written' = [written EXCEPT ![key] = Some(th.state)]
  /\ Return2("updateThreadState", key, Some(update))
  /\ UNCHANGED <<previewMode, input, sessions, created_tasks, todoist, now,
                 calls, log, response>>

\* A DELETE that was issued and not awaited runs.
DeleteRuns(key) ==
  /\ key \in pendingDelete
  /\ threadDb' = [threadDb EXCEPT ![key] = None]
  /\ pendingDelete' = pendingDelete \ {key}
  /\ UNCHANGED <<previewMode, input, returned, sessions, created_tasks,
                 todoist, threadCache, written, now, calls, log, response>>

\* Time passes: the expiry delay, or the expiry delay and one millisecond.
Advance(d) ==
  /\ now + d <= MaxAdvances * (EXPIRY_MS + 1)
  /\ now' = now + d
  /\ UNCHANGED <<previewMode, input, returned, sessions, created_tasks,
                 todoist, threadCache, threadStore, calls, log, response>>

\* The process is stopped and started again once the statements under way
\* have run: the state cache is empty, the table is as it was.
Restart ==
  /\ pendingDelete = {}
  /\ threadCache' = [k \in ThreadKeys |-> None]
  /\ UNCHANGED <<previewMode, input, returned, sessions, created_tasks,
                 todoist, threadStore, now, calls, log, response>>

\* ------------------------------------------------- SessionService, by call
MaxRows == 3

\* The task list of the sessions created (no query reads it).
SampleParsed ==
  <<[title |-> TitleX, explicit_minutes |-> None, duration_bucket |-> NoBucket]>>

\* createSession(userId, inputText, parsed)
CreateSession(userId, parsed) ==
  /\ Len(sessions) < MaxRows
  /\ \E t \in Clock(now) :
       /\ sessions' = Append(sessions, NewSession(userId, parsed, t))
       /\ now' = t
  /\ Return2("createSession", userId, Some(Len(sessions) + 1))
  /\ UNCHANGED <<previewMode, input, created_tasks, todoist, threadCache,
                 threadStore, calls, log, response>>

\* updateSession(sessionId, status)
SetStatus(sessionId, status) ==
  /\ sessionId \in DOMAIN sessions
  /\ \E t \in Clock(now) :
       /\ sessions' = UpdateSession(sessions, sessionId, status, None, t)
       /\ now' = t
  /\ Return2("updateSession", sessions[sessionId].userId, None)
  /\ UNCHANGED <<previewMode, input, created_tasks, todoist, threadCache,
                 threadStore, calls, log, response>>

\* getLastPendingSession(userId): the row returned, None for null.
LastPending(userId) ==
  /\ IF GetLastPendingSession(sessions, userId) = {}
     THEN Return2("getLastPendingSession", userId, None)
     ELSE \E s \in GetLastPendingSession(sessions, userId) :
            Return2("getLastPendingSession", userId, Some(s))
  /\ UNCHANGED <<previewMode, input, sessions, created_tasks, todoist,
                 threadCache, threadStore, now, calls, log, response>>

\* ---------------------------------------------------------- specifications
Handlers ==
  \/ \E u \in Callers, p \in ParsedLists : Organize(u, p)
  \/ \E u \in Callers, tt \in TimeTexts : UpdateTimeEstimate(u, tt)
  \/ \E u \in Callers, ref \in 1..(MaxTasks + 1),
        o \in BreakdownOutcomes : Breakdown(u, ref, o)
  \/ \E u \in Callers : Resume(u)
  \/ \E u \in Callers : Discard(u)
  \/ \E u \in Callers : ClearAll(u)

AcceptSteps(c) ==
  \/ AcceptCheck(c)
  \/ \E conn \in BOOLEAN : AcceptConnect(c, conn)
  \/ \E posted \in BOOLEAN : AcceptCreate(c, posted)
  \/ AcceptOffline(c)
  \/ AcceptRecord(c)
  \/ AcceptPush(c)

\* One request at a time: a handler starts when no call is in flight.
Next ==
  \/ Handlers
  \/ \E u \in Callers, sid \in 0..MaxSessions : AcceptBegin(1, u, sid)
  \/ AcceptSteps(1)

Spec == Init /\ [][Next]_vars

\* One request at a time, and the process may stop in the middle of one.
CrashNext == Next \/ Crash

CrashSpec == Init /\ [][CrashNext]_vars

\* Requests arrive while others are waiting at an await.
ConcurrentNext ==
  \/ Handlers
  \/ \E c \in Slots :
       \/ \E u \in Callers, sid \in 0..MaxSessions : AcceptBegin(c, u, sid)
       \/ AcceptSteps(c)

ConcurrentSpec == Init /\ [][ConcurrentNext]_vars

\* organize on a text and a service answer, both fixed from the start.
ClassifierInit == Start /\ input \in Inputs

ClassifierNext ==
  \/ \E u \in Callers : OrganizeText(u)
  \/ \E u \in Callers : Resume(u)
  \/ \E u \in Callers : Discard(u)

ClassifierSpec == ClassifierInit /\ [][ClassifierNext]_vars

\* One request at a time, Todoist may leave a request unanswered; the event
\* loop runs every continuation that is ready.
HangNext == Next \/ AcceptHang(1)

HangSpec == Init /\ [][HangNext]_vars /\ WF_vars(AcceptSteps(1))

\* The thread state service called in any order, as time passes and the
\* process is restarted.
ThreadNext ==
  \/ \E key \in CallerKeys : ThreadRead(key)
  \/ \E key \in CallerKeys, update \in ThreadUpdates : ThreadWrite(key, update)
  \/ \E key \in CallerKeys : DeleteRuns(key)
  \/ \E d \in {EXPIRY_MS, EXPIRY_MS + 1} : Advance(d)
  \/ Restart

ThreadSpec == Init /\ [][ThreadNext]_vars

\* organize(inputText, userId) up to its needs_time or preview response, for
\* a user who may have sessions already: the session is created and the
\* response carries it with the tasks parsed.
OrganizeStaged(userId, parsed) ==
  /\ Len(sessions) < MaxRows
  /\ NeedsTime(parsed) \/ ShowsPreview(previewMode)
  /\ \E t \in Clock(now) :
       /\ sessions' = Append(sessions, NewSession(userId, parsed, t))
       /\ now' = t
  /\ Respond("organize", IF NeedsTime(parsed) THEN "needs_time" ELSE "preview")
  /\ Return2("organize", userId, Some(Len(sessions) + 1))
  /\ UNCHANGED <<previewMode, input, created_tasks, todoist, threadCache,
                 threadStore, calls, log>>

\* The session service called in any order by the users.
SessionNext ==
  \/ \E u \in Users : CreateSession(u, SampleParsed)
  \/ \E s \in 1..MaxRows, st \in Statuses : SetStatus(s, st)
  \/ \E u \in Users : LastPending(u)

SessionSpec == Init /\ [][SessionNext]_vars

\* ------------------------------------------------------- breakdownProject
MaxDepth == 2
MaxSubtasks == 2

\* An object the service answers a breakdown with; its subtasks are absent
\* (None) or an array of such objects.
SubtaskObject(title, subtasks) ==
  [null |-> FALSE, raw |-> None, title |-> title, explicit_minutes |-> None,
   duration_bucket |-> "2min", is_project_candidate |-> FALSE,
   subtasks |-> subtasks]

LeafObjects ==
  { SubtaskObject(t, None) : t \in {None, Some(<<Word("send")>>)} }

\* The objects whose subtasks nest d levels below the first level: the
\* first subtask carries the nesting, the others carry no subtasks.
RECURSIVE NestedObjects(_)
NestedObjects(d) ==
  IF d = 0
  THEN LeafObjects \cup { SubtaskObject(None, Some(<<>>)) }
  ELSE { SubtaskObject(None, Some(<<first>> \o rest)) :
           first \in NestedObjects(d - 1),
           rest \in UNION { [1..n -> LeafObjects] : n \in 0..(MaxSubtasks - 1) } }

\* What client.messages.create does for a breakdown: it throws, it answers
\* with a content that is not text, with a text that is not JSON, with the
\* JSON null, or with a JSON object.
BreakdownAnswers ==
  { Answer(k, <<>>) : k \in {"throws", "not text", "not json", "null"} }
    \cup { Answer("object", <<o>>) :
             o \in UNION { NestedObjects(d) : d \in 0..MaxDepth } }

BreakdownInputs == { [service |-> a] : a \in BreakdownAnswers }

\* validateParsedTasks(tasks): subtasks: task.subtasks ?
\* this.validateParsedTasks(task.subtasks) : undefined
RECURSIVE validateParsedTasks(_)
validateParsedTasks(tasks) ==
  [i \in DOMAIN tasks |->
     ValidateParsedTask(tasks[i])
       @@ [subtasks |->
             IF tasks[i].subtasks = None THEN None
             ELSE Some(validateParsedTasks(tasks[i].subtasks[1]))]]

\* breakdownProject(task): the task goes into the prompt, what is returned
\* is the object of the service, validated.  The service call is made
\* before the try block; inside it, every failure throws 'Failed to
\* generate subtasks'.
breakdownProject(service) ==
  IF service.kind # "object"
  THEN [threw |-> TRUE, task |-> <<>>]
  ELSE [threw |-> FALSE, task |-> validateParsedTasks(service.elements)[1]]

\* breakdownProject on the answer given.
BreakdownProjectCall ==
  /\ Return2("breakdownProject", input.service.kind,
             breakdownProject(input.service))
  /\ UNCHANGED <<previewMode, input, sessions, created_tasks, todoist,
                 threadCache, threadStore, now, calls, log, response>>

BreakdownInit == Start /\ input \in BreakdownInputs

BreakdownNext == BreakdownProjectCall

BreakdownSpec == BreakdownInit /\ [][BreakdownNext]_vars

\* ------------------------------------------- createTasks, with subtasks
MaxCreates == 6

\* Tasks that carry subtasks (none, one or MaxSubtasks of them); a subtask
\* carries none.
Subtask == [title |-> TitleXY, subtasks |-> None]

SubtaskedTasks ==
  { [title |-> TitleX, subtasks |-> s] :
      s \in {None} \cup { Some([j \in 1..n |-> Subtask]) : n \in 1..MaxSubtasks } }

CreateInputs ==
  { [tasks |-> l] : l \in UNION { [1..n -> SubtaskedTasks] : n \in 1..MaxTasks } }

\* The calls of createSingleTask that createTasks may make: <<i, 0>> for
\* the task at position i, <<i, j>> for its subtask at position j.
AttemptKeys(tasks) ==
  { <<i, 0>> : i \in DOMAIN tasks }
    \cup UNION { { <<i, j>> : j \in IF tasks[i].subtasks = None THEN {}
                                    ELSE DOMAIN tasks[i].subtasks[1] } :
                  i \in DOMAIN tasks }

\* One call of createSingleTask for the key, and what createTasks does
\* with its outcome: created.push(...) when the POST succeeded,
\* failed.push(...) in the catch.  attempts is a history field, the calls
\* made in their order.
Attempted(acc, key, task, parentId, succeeded) ==
  IF succeeded
  THEN [acc EXCEPT
          !.attempts = Append(@, key),
          !.todoist = CreateSingleTask(@, task, 0, key[1], "createTasks", FALSE),
          !.created = Append(@, [id |-> Len(acc.todoist) + 1, key |-> key,
                                 parent_id |-> parentId])]
  ELSE [acc EXCEPT !.attempts = Append(@, key), !.failed = Append(@, key)]

\* for (const subtask of task.subtasks), from position j on.
RECURSIVE SubtaskLoop(_, _, _, _, _, _)
SubtaskLoop(subtasks, i, j, ok, parentId, acc) ==
  With(acc, LAMBDA a :
    IF j > Len(subtasks) THEN a
    ELSE SubtaskLoop(subtasks, i, j + 1, ok, parentId,
                     Attempted(a, <<i, j>>, subtasks[j], parentId,
                               <<i, j>> \in ok)))

\* The subtasks are gone through whether the task was created or not.
EntersSubtasksAlways(task, succeeded) == task.subtasks # None

\* The subtasks are gone through in the try block of their task, after its
\* createSingleTask returned: if (task.subtasks)
EntersSubtasks(task, succeeded) == succeeded /\ task.subtasks # None

\* The first failed create ends the loop.
AfterFailureStop(tasks, i) == Len(tasks) + 1

\* The catch of a task is inside the loop: the loop goes on with the next
\* task.
AfterFailure(tasks, i) == i + 1

\* for (const task of tasks), from position i on.
RECURSIVE TaskLoop(_, _, _, _)
TaskLoop(tasks, i, ok, acc) ==
  With(acc, LAMBDA a :
    IF i > Len(tasks) THEN a
    ELSE With(Attempted(a, <<i, 0>>, tasks[i], 0, <<i, 0>> \in ok), LAMBDA b :
         With(IF EntersSubtasks(tasks[i], <<i, 0>> \in ok)
              THEN SubtaskLoop(tasks[i].subtasks[1], i, 1, ok,
                               IF <<i, 0>> \in ok THEN Len(b.todoist) ELSE 0, b)
              ELSE b, LAMBDA c :
           TaskLoop(tasks,
                    IF <<i, 0>> \in ok THEN i + 1 ELSE AfterFailure(tasks, i),
                    ok, c))))

\* createTasks(tasks, sessionId): conn is the outcome of testConnection, ok
\* the calls of createSingleTask whose POST succeeds.
createTasks(ext, tasks, conn, ok) ==
  IF ~conn
  THEN [created |-> <<>>, failed |-> [i \in DOMAIN tasks |-> <<i, 0>>],
        offline |-> TRUE, attempts |-> <<>>, todoist |-> ext]
  ELSE TaskLoop(tasks, 1, ok,
         [created |-> <<>>, failed |-> <<>>, offline |-> FALSE,
          attempts |-> <<>>, todoist |-> ext])

\* createTasks on the tasks given.
CreateTasksCall ==
  \E conn \in BOOLEAN, ok \in SUBSET AttemptKeys(input.tasks) :
    \E r \in {createTasks(todoist, input.tasks, conn, ok)} :
      /\ ~conn => ok = {}
      /\ Len(todoist) + Cardinality(AttemptKeys(input.tasks)) <= MaxCreates
      /\ todoist' = r.todoist
      /\ Return2("createTasks", input.tasks, r)
      /\ UNCHANGED <<previewMode, input, sessions, created_tasks,
                     threadCache, threadStore, now, calls, log, response>>

CreateInit == Start /\ input \in CreateInputs

CreateNext == CreateTasksCall

CreateSpec == CreateInit /\ [][CreateNext]_vars

\* ------------------------------------------------- the parsers, by call
\* parseTime(text) on the text given.
ParseTimeCall ==
  /\ Return2("parseTime", input.text, parseTime(input.text))
  /\ UNCHANGED <<previewMode, input, sessions, created_tasks, todoist,
                 threadCache, threadStore, now, calls, log, response>>

\* extractCandidateLines(text) on the text given.
ExtractCall ==
  /\ Return2("extractCandidateLines", input.text,
             extractCandidateLines(input.text))
  /\ UNCHANGED <<previewMode, input, sessions, created_tasks, todoist,
                 threadCache, threadStore, now, calls, log, response>>

\* The parsers applied to a text fixed from the start.
ParserInit == Start /\ input \in TextInputs

ParserNext == ParseTimeCall \/ ExtractCall

ParserSpec == ParserInit /\ [][ParserNext]_vars

\* Users organize their texts and look their last pending session up.
StagingNext ==
  \/ \E u \in Users, parsed \in ParsedLists : OrganizeStaged(u, parsed)
  \/ \E u \in Users : LastPending(u)

StagingSpec == Init /\ [][StagingNext]_vars

\* ------------------------------------------------------------------ claims
\* The creates made in Todoist for task idx of session sid by the handlers
\* in bySet.
CreatesFor(sid, idx, bySet) ==
  { k \in DOMAIN todoist :
      /\ todoist[k].sid = sid
      /\ todoist[k].idx = idx
      /\ todoist[k].by \in bySet }

AnyHandler == {"accept", "organize", "updateTimeEstimate"}

\* The accept call log[j] met a service that behaved normally.
NormalAccept(j) == ~log[j].offline /\ log[j].failed = {}

\* The tasks of the session have pairwise different ledger hashes.
DistinctHashes(sid) ==
  \A i1, i2 \in DOMAIN sessions[sid].parsed :
    GenerateTaskHash(sessions[sid].parsed[i1], sid)
      = GenerateTaskHash(sessions[sid].parsed[i2], sid) => i1 = i2

\* C1: an accept call on a session that follows an accept call on the same
\* session during which the service behaved normally finds nothing to
\* create and creates nothing: two calls leave the external tasks of one.
IdempotentAccept ==
  \A j, k \in DOMAIN log :
    (j < k /\ log[j].sid = log[k].sid /\ NormalAccept(j))
      => (log[k].todo = {} /\ log[k].created = {})

\* A second accept returned on a session whose first accept created tasks.
IdempotentAcceptWitness ==
  \E j, k \in DOMAIN log :
    /\ j < k
    /\ log[j].sid = log[k].sid
    /\ NormalAccept(j)
    /\ log[j].created # {}
    /\ Len(todoist) > 0

\* C2: when the service, reachable, failed for the subset F of the tasks of
\* a first accept, the second accept on that session attempts exactly the
\* tasks of F.
PartialFailureResumable ==
  \A j, k \in DOMAIN log :
    (/\ j < k
     /\ log[j].sid = log[k].sid
     /\ \A m \in DOMAIN log : m < j => log[m].sid # log[j].sid
     /\ \A m \in DOMAIN log : (j < m /\ m < k) => log[m].sid # log[j].sid
     /\ DistinctHashes(log[j].sid)
     /\ ~log[j].offline
     /\ log[j].failed # {})
      => log[k].todo = log[j].failed

\* C3: a ledger entry exists only for a task that accept created in Todoist.
LedgerOnlyConfirmedSuccess ==
  \A e \in created_tasks :
    \E k \in DOMAIN todoist :
      /\ todoist[k].sid = e.session_id
      /\ todoist[k].by = "accept"
      /\ GenerateTaskHash(sessions[e.session_id].parsed[todoist[k].idx],
                          e.session_id) = e.title_hash

\* C4: a session is pushed only if each of its tasks exists in Todoist.
PushedOnlyIfAllCreated ==
  \A s \in DOMAIN sessions :
    sessions[s].status = "pushed"
      => \A idx \in DOMAIN sessions[s].parsed : CreatesFor(s, idx, AnyHandler) # {}

\* C5: accept never creates, for a session task, an external task that an
\* accept before it (one the process stopped in, included) created already.
NoRecreateAfterStop ==
  [][ (/\ Len(todoist') = Len(todoist) + 1
       /\ todoist'[Len(todoist')].by = "accept")
        => CreatesFor(todoist'[Len(todoist')].sid,
                      todoist'[Len(todoist')].idx, {"accept"}) = {} ]_vars

\* C6: accept calls, however they interleave, create each task of a session
\* at most once.
AtMostOnceUnderInterleaving ==
  \A s \in DOMAIN sessions :
    \A idx \in DOMAIN sessions[s].parsed :
      Cardinality(CreatesFor(s, idx, {"accept"})) <= 1

\* C7: no sequence of accept, organize and updateTimeEstimate creates the
\* same task of a session in Todoist more than once.
NoSessionTaskCreatedTwice ==
  \A s \in DOMAIN sessions :
    \A idx \in DOMAIN sessions[s].parsed :
      \A k1, k2 \in CreatesFor(s, idx, AnyHandler) : k1 = k2

TerminalStatuses ==
  [][ \A s \in DOMAIN sessions :
        sessions[s].status \in {"pushed", "discarded"}
          => sessions'[s].status = sessions[s].status ]_vars

\* C10: the step that discards a session, and every step taken while a
\* session is discarded, creates no task of that session in Todoist.
DiscardCreatesNothing ==
  [][ \A s \in DOMAIN sessions :
        (sessions[s].status = "discarded" \/ sessions'[s].status = "discarded")
          => \A k \in DOMAIN todoist' :
               todoist'[k].sid = s => k \in DOMAIN todoist ]_vars

\* The positions of an accept call up to the return of its offline branch.
BeforeCreate == {"check", "connect", "offline"}

\* The ids a session row holds in created_task_ids.
IdsOf(row) ==
  IF row.created_task_ids = None THEN {} ELSE Range(row.created_task_ids[1])

\* C11: an accept call that finds Todoist unreachable creates no task in
\* Todoist and writes no ledger entry at any of its steps, and returns an
\* error response leaving the session pending.
OfflineAcceptOnlyReports ==
  [][ \A c \in Slots :
        (/\ calls'[c] # calls[c]
         /\ calls[c].pc \in BeforeCreate \cup {"idle"}
         /\ calls'[c].pc \in BeforeCreate \cup {"idle"})
          => /\ todoist' = todoist
             /\ created_tasks' = created_tasks
             /\ calls[c].pc = "offline"
                  => /\ calls'[c].pc = "idle"
                     /\ response'.op = "accept"
                     /\ response'.type = "error"
                     /\ sessions'[calls[c].sid].status = "pending"
                     /\ log'[Len(log')].offline ]_vars

\* An accept call returned offline on a session that was not pending when
\* the call found it.
OfflineAcceptWitness ==
  \E k \in DOMAIN log :
    /\ k = Len(log)
    /\ log[k].offline
    /\ log[k].created = {}
    /\ response.op = "accept"
    /\ response.type = "error"
    /\ sessions[log[k].sid].status = "pending"
    /\ Len(todoist) > 0

\* C12: no step takes an id out of the created task ids of a session, and
\* no step takes an entry out of the ledger.
NothingRolledBack ==
  [][ /\ \A s \in DOMAIN sessions : IdsOf(sessions[s]) \subseteq IdsOf(sessions'[s])
      /\ \A e \in created_tasks :
           \E e2 \in created_tasks' :
             e2.session_id = e.session_id /\ e2.title_hash = e.title_hash ]_vars

\* C13: after organize on a text with a candidate line, when the service
\* call threw or answered with a payload that does not parse, the response
\* is not the processing error and a session holds the fallback tasks.
FallbackLiveness ==
  (response.op = "organize"
     /\ input.service.kind \in {"throws", "not text", "not json"})
    => /\ response.message # "processing error"
       /\ \E s \in DOMAIN sessions :
            /\ sessions[s].parsed # <<>>
            /\ sessions[s].parsed = Fallback(input.lines)

\* C14: every task organize staged from what parseAndClassify returned has
\* the explicit_minutes and the duration_bucket parseTime gives for its raw
\* line.
DurationInvariant ==
  \A s \in DOMAIN sessions :
    \A i \in DOMAIN sessions[s].parsed :
      LET task == sessions[s].parsed[i] IN
      /\ task.explicit_minutes = ParseTime(task.raw).explicit_minutes
      /\ task.duration_bucket = ParseTime(task.raw).duration_bucket

\* The answer is not an array of as many elements as there are lines, each
\* with a non-empty title.
Malformed(lines, service) ==
  \/ service.kind # "array"
  \/ Len(service.elements) # Len(lines)
  \/ \E k \in DOMAIN service.elements :
       service.elements[k].null \/ service.elements[k].title = None

\* C15: whatever the service answers, parseAndClassify returns one task
\* per candidate line, and exactly the fallback tasks when the answer is
\* malformed.
ClassifierShape ==
  (response.op = "organize" /\ input.service.kind # "throws")
    => LET r == ParseAndClassify(input.lines, input.service) IN
       /\ Len(r.tasks) = Len(input.lines)
       /\ Malformed(input.lines, input.service)
            => r.tasks = Fallback(input.lines)

\* C16: a breakdown whose subtask generation threw or returned no subtasks
\* answers with an error and leaves the sessions, the ledger and Todoist as
\* they were.
BreakdownFailureChangesNothing ==
  [][ \A u \in Callers, ref \in 1..(MaxTasks + 1), o \in {"throws", "empty"} :
        Breakdown(u, ref, o)
          => /\ response'.op = "breakdown"
             /\ response'.type = "error"
             /\ sessions' = sessions
             /\ created_tasks' = created_tasks
             /\ todoist' = todoist ]_vars

\* breakdown answered that the task of a pending session could not be
\* broken down.
BreakdownFailureWitness ==
  /\ response.op = "breakdown"
  /\ response.type = "error"
  /\ response.message \in {"failed to break down", "could not break down"}
  /\ \E s \in DOMAIN sessions : sessions[s].status = "pending"

\* C17: every accept call returns, whether or not Todoist answers.
EveryCallReturns ==
  \A c \in Slots : (calls[c].pc # "idle") ~> (calls[c].pc = "idle")

\* C18: a getThreadState made more than 30 minutes after the last update
\* returns null and leaves the entry neither in the cache nor (once the
\* DELETE it issued has run) in the table; one made within 30 minutes
\* returns the state last written.
ContextTTL ==
  (returned.op = "getThreadState" /\ written[returned.key] # None)
    => LET key == returned.key
           age == returned.at - written[key][1].updatedAt
       IN IF age > EXPIRY_MS
          THEN /\ returned.value = None
               /\ threadCache[key] = None
               /\ key \notin pendingDelete => threadDb[key] = None
          ELSE returned.value = written[key]

\* The unexpired state the service holds for the key: the cache entry, the
\* row when the cache has none.
Existing(key) ==
  IF threadCache[key] # None
  THEN IF now - threadCache[key][1].updatedAt > EXPIRY_MS
       THEN None ELSE threadCache[key]
  ELSE IF threadDb[key] # None
       THEN IF now - threadDb[key][1].updated_at > EXPIRY_MS
            THEN None ELSE Some(RowToState(threadDb[key][1]))
       ELSE None

\* C19: updateThreadState sets each field the update gives, leaves each
\* field it does not give at the value of the existing unexpired state,
\* and stamps the state with the current time, in the cache and in the row.
MergePatch ==
  [][ \A key \in CallerKeys, update \in ThreadUpdates :
        ThreadWrite(key, update)
          => LET new == threadCache'[key][1] IN
             /\ \A f \in ThreadFields :
                  /\ (update[f] # None /\ ~GivenNull(update, f))
                       => new[f] = update[f]
                  /\ (update[f] # None /\ GivenNull(update, f))
                       => new[f] = None
                  /\ (update[f] = None /\ Existing(key) # None)
                       => new[f] = Existing(key)[1][f]
             /\ new.updatedAt = now
             /\ threadDb'[key] = Some(StateToRow(new)) ]_vars

\* An update that gave no title and no session was made over a state that
\* had both: the state holds them with the intent the update cleared.
MergePatchWitness ==
  \E key \in CallerKeys :
    /\ returned.op = "updateThreadState"
    /\ returned.key = key
    /\ returned.value[1].lastTaskTitle = None
    /\ returned.value[1].lastSessionId = None
    /\ returned.value[1].context # None
    /\ threadCache[key] # None
    /\ threadCache[key][1].lastTaskTitle = Some(TitleX)
    /\ threadCache[key][1].lastSessionId = Some(1)
    /\ threadCache[key][1].lastIntent = None
    /\ threadCache[key][1].context # None

\* C20: getLastPendingSession(userId) returns null exactly when the user
\* has no pending session, and otherwise a pending session of that user
\* than which no pending session of the user was updated later.
LastPendingIsLatestOfUser ==
  returned.op = "getLastPendingSession"
    => IF returned.value = None
       THEN \A s \in DOMAIN sessions :
              ~(sessions[s].userId = returned.key /\ sessions[s].status = "pending")
       ELSE LET got == returned.value[1] IN
            /\ got \in DOMAIN sessions
            /\ sessions[got].userId = returned.key
            /\ sessions[got].status = "pending"
            /\ \A s \in DOMAIN sessions :
                 (sessions[s].userId = returned.key /\ sessions[s].status = "pending")
                   => sessions[s].updatedAt <= sessions[got].updatedAt

\* The session returned is not the last row: the user has an older pending
\* session, and another user has a pending session updated later.
LastPendingWitness ==
  /\ returned.op = "getLastPendingSession"
  /\ returned.value # None
  /\ \E s1, s2 \in DOMAIN sessions :
       /\ sessions[s1].userId = returned.key
       /\ sessions[s1].status = "pending"
       /\ sessions[s1].updatedAt < sessions[returned.value[1]].updatedAt
       /\ sessions[s2].userId # returned.key
       /\ sessions[s2].status = "pending"
       /\ sessions[s2].updatedAt >= sessions[returned.value[1]].updatedAt
       /\ returned.value[1] < s2

\* C21: a getLastPendingSession for the user that follows the needs_time or
\* preview response of that user's organize, nothing in between, returns the
\* session that organize created.
OrganizePersistsSession ==
  [][ \A u \in Users :
        (LastPending(u) /\ returned.op = "organize" /\ returned.key = u)
          => returned'.value = returned.value ]_vars

\* The minutes and the bucket parseTime returned for the line.
Extracted(line, minutes, bucket) ==
  (returned.op = "parseTime" /\ returned.key = line)
    => /\ returned.value.explicit_minutes = minutes
       /\ returned.value.duration_bucket = bucket

\* C22: parseTime gives 30 minutes and 30plus for "review contracts - 30
\* minutes", 2 and 2min for "quick email (2m)", 30 and 30plus for "half
\* hour deck edits", the upper bound 30 and 30plus for "15-30 mins to clean
\* CRM", no minutes and 10min for "email team", no minutes and no bucket
\* for "draft proposal for Smith".
TimeExtractionCases ==
  /\ Extracted("review contracts - 30 minutes", Some(30), "30plus")
  /\ Extracted("quick email (2m)", Some(2), "2min")
  /\ Extracted("half hour deck edits", Some(30), "30plus")
  /\ Extracted("15-30 mins to clean CRM", Some(30), "30plus")
  /\ Extracted("email team", None, "10min")
  /\ Extracted("draft proposal for Smith", None, NoBucket)

\* parseTime returned for the line that gives a range.
TimeExtractionWitness ==
  /\ returned.op = "parseTime"
  /\ returned.key = "15-30 mins to clean CRM"
  /\ returned.value.explicit_minutes = Some(30)

\* What extractCandidateLines returned for the text.
Lines(text) == returned.op = "extractCandidateLines" /\ returned.key = text

\* C23: "1) email Aaron 2) review contract - 30 min" gives exactly two
\* candidate lines, "email Sam - 10 min" exactly one, and every line that
\* extractCandidateLines returns is trimmed and longer than two characters.
SplitterLines ==
  /\ Lines("1) email Aaron 2) review contract - 30 min")
       => Len(returned.value) = 2
  /\ Lines("email Sam - 10 min") => Len(returned.value) = 1
  /\ returned.op = "extractCandidateLines"
       => \A i \in DOMAIN returned.value :
            /\ Trim(returned.value[i]) = returned.value[i]
            /\ Len(returned.value[i]) > 2

\* The lines whose time expression is a qualified one, with the minutes
\* written in each.
QualifiedLines ==
  { [line |-> w \o q.text, minutes |-> q.minutes] :
      w \in Wordings,
      q \in { [text |-> " about 10 mins", minutes |-> 10],
              [text |-> " around 20 mins", minutes |-> 20],
              [text |-> " roughly 5 mins", minutes |-> 5],
              [text |-> " approx 15 mins", minutes |-> 15] } }

\* C28: for a line whose time expression is "about N mins", "around N
\* mins", "roughly N mins" or "approx N mins", parseTime returns N for the
\* minutes and the bucket of N.
QualifiedMinutes ==
  \A q \in QualifiedLines :
    (returned.op = "parseTime" /\ returned.key = q.line)
      => /\ returned.value.explicit_minutes = Some(q.minutes)
         /\ returned.value.duration_bucket = BucketOfMinutes(q.minutes)

\* cleanTaskTitle, its list markers: a number with "." or ")", a bullet, a
\* letter with ".", each at the start and taken out with the white space
\* around it, one after the other.
WithoutListMarker(text) ==
  With(text, LAMBDA a :
  With(SpacesEnd(a, 1), LAMBDA sa :
  With(DigitsEnd(a, sa), LAMBDA da :
  With(IF da > sa /\ At(a, da) \in {".", ")"}
       THEN SubSeq(a, SpacesEnd(a, da + 1), Len(a))
       ELSE a, LAMBDA b :
  With(SpacesEnd(b, 1), LAMBDA sb :
  With(IF At(b, sb) \in {"-", Bullet, "*"}
       THEN SubSeq(b, SpacesEnd(b, sb + 1), Len(b))
       ELSE b, LAMBDA c :
  With(SpacesEnd(c, 1), LAMBDA sc :
    IF /\ IndexIn(LowerChars, At(c, sc)) > 0 \/ IndexIn(UpperChars, At(c, sc)) > 0
       /\ At(c, sc + 1) = "."
    THEN SubSeq(c, SpacesEnd(c, sc + 2), Len(c))
    ELSE c)))))))

\* C29: for a candidate line with no time expression, parseTime returns no
\* minutes, and the bucket 10min when the first word of the line after its
\* list marker is a quick action verb, no bucket otherwise.
QuickVerbDefault ==
  \A m \in ListMarkers, w \in Wordings :
    (returned.op = "parseTime" /\ returned.key = m \o w)
      => /\ returned.value.explicit_minutes = None
         /\ returned.value.duration_bucket =
              getDurationBucket(None, WithoutListMarker(m \o w))

\* C30: extractCandidateLines gives exactly one candidate line for "email
\* Aaron about invoice, 2 mins".
TrailingTimeKept ==
  Lines("email Aaron about invoice, 2 mins") => Len(returned.value) = 1

\* C26: every task parseAndClassify returned (the tasks organize stages in a
\* session) whose bucket is 30plus is a project candidate, whatever the
\* service answered.
LongIsProjectCandidate ==
  \A s \in DOMAIN sessions : \A i \in DOMAIN sessions[s].parsed :
    sessions[s].parsed[i].duration_bucket = "30plus"
      => sessions[s].parsed[i].is_project_candidate

\* The subtasks of the task, none when it has no list of them.
SubtasksOf(task) == IF task.subtasks = None THEN <<>> ELSE task.subtasks[1]

\* C27: no task that breakdownProject returns carries a subtask that itself
\* has subtasks, whatever the service answered.
NestingCapped ==
  (returned.op = "breakdownProject" /\ ~returned.value.threw)
    => \A i \in DOMAIN SubtasksOf(returned.value.task) :
         SubtasksOf(SubtasksOf(returned.value.task)[i]) = <<>>

\* The positions of the key in the calls made, and whether the call for
\* the key succeeded.
AttemptsOf(r, key) == { k \in DOMAIN r.attempts : r.attempts[k] = key }
CreatedKey(r, key) == \E k \in DOMAIN r.created : r.created[k].key = key
FailedKey(r, key) == \E k \in DOMAIN r.failed : r.failed[k] = key

\* C24: createTasks attempts the create of a subtask only after the create
\* of its parent succeeded; when the create of the parent failed, it
\* attempts the create of none of its subtasks.
ParentBeforeSubtasks ==
  returned.op = "createTasks"
    => \A k \in DOMAIN returned.value.attempts :
         LET key == returned.value.attempts[k] IN
         key[2] # 0
           => /\ CreatedKey(returned.value, <<key[1], 0>>)
              /\ \E p \in 1..(k - 1) :
                   returned.value.attempts[p] = <<key[1], 0>>

\* createTasks returned for two tasks with subtasks: the create of the
\* first failed, the subtasks of the second were attempted.
ParentBeforeSubtasksWitness ==
  /\ returned.op = "createTasks"
  /\ Len(returned.key) = 2
  /\ returned.key[1].subtasks # None
  /\ FailedKey(returned.value, <<1, 0>>)
  /\ AttemptsOf(returned.value, <<2, 1>>) # {}

\* C25: when Todoist is reachable, createTasks attempts every task given
\* once, whatever became of the tasks before it, and the task is then
\* either among the created or among the failed, not both.
BatchIsolation ==
  (returned.op = "createTasks" /\ ~returned.value.offline)
    => \A i \in DOMAIN returned.key :
         /\ Cardinality(AttemptsOf(returned.value, <<i, 0>>)) = 1
         /\ CreatedKey(returned.value, <<i, 0>>)
              # FailedKey(returned.value, <<i, 0>>)

\* createTasks returned for two tasks: the create of the first failed, the
\* second was created.
BatchIsolationWitness ==
  /\ returned.op = "createTasks"
  /\ ~returned.value.offline
  /\ Len(returned.key) = 2
  /\ FailedKey(returned.value, <<1, 0>>)
  /\ CreatedKey(returned.value, <<2, 0>>)

\* ---------------------------------------------------------- cleanTaskTitle
\* The prefixes of cleanTaskTitle, in the order of the source: the words of
\* each, with \s+ after every word.
TASK_PREFIXES ==
  << <<"create", "a", "task", "to">>,
     <<"add", "task", "to">>,
     <<"remind", "me", "to">>,
     <<"need", "to">>,
     <<"i", "need", "to">> >>

\* The position after the words, each followed by white space, that the
\* text has from position i on, whatever the case of its letters; 0 when it
\* does not have them there.
RECURSIVE PrefixEnd(_, _, _)
PrefixEnd(s, i, words) ==
  With(words, LAMBDA ws :
    IF ws = <<>> THEN i
    ELSE IF ~StartsWithAtAnyCase(s, i, Head(ws)) THEN 0
    ELSE With(i + Len(Head(ws)), LAMBDA e :
         With(SpacesEnd(s, e), LAMBDA n :
           IF n > e THEN PrefixEnd(s, n, Tail(ws)) ELSE 0)))

\* cleaned.replace(prefix, '')
WithoutPrefix(s, words) ==
  With(PrefixEnd(s, 1, words), LAMBDA e :
    IF e = 0 THEN s ELSE SubSeq(s, e, Len(s)))

\* for (const prefix of prefixes), from position k on.
RECURSIVE PrefixLoop(_, _)
PrefixLoop(cleaned, k) ==
  With(cleaned, LAMBDA c :
    IF k > Len(TASK_PREFIXES) THEN c
    ELSE PrefixLoop(WithoutPrefix(c, TASK_PREFIXES[k]), k + 1))

\* cleanTaskTitle(text)
cleanTaskTitle(text) == Trim(PrefixLoop(WithoutListMarker(text), 1))

\* Lines given to cleanTaskTitle: a list marker or none, a request prefix
\* or none, a wording.
TitleMarkers == {"", "1) ", "- ", "a. "}

RequestPrefixes ==
  {"create a task to ", "add a task to ", "remind me to ", "I need to ",
   "need to "}

TitleWordings == {"update cash flow forecast for LL Medico", "email team"}

TitleInputs ==
  { [text |-> m \o p \o w] :
      m \in TitleMarkers,
      p \in RequestPrefixes \cup {"", "add task to "},
      w \in TitleWordings }

\* cleanTaskTitle on the text given.
CleanTaskTitleCall ==
  /\ Return2("cleanTaskTitle", input.text, cleanTaskTitle(input.text))
  /\ UNCHANGED <<previewMode, input, sessions, created_tasks, todoist,
                 threadCache, threadStore, now, calls, log, response>>

TitleInit == Start /\ input \in TitleInputs

TitleNext == CleanTaskTitleCall

TitleSpec == TitleInit /\ [][TitleNext]_vars

\* C31: cleanTaskTitle takes a leading list marker and then each of the
\* prefixes "create a task to", "add a task to", "remind me to", "I need
\* to", "need to" off the start of the line and leaves the wording as it is.
RequestPrefixesStripped ==
  \A m \in TitleMarkers, p \in RequestPrefixes, w \in TitleWordings :
    (returned.op = "cleanTaskTitle" /\ returned.key = m \o p \o w)
      => returned.value = w

\* ------------------------------------------------------ the bucketing rule
MaxMinutes == 20

\* The bucket with its two limits taken as strict.
NewBucketBelow(minutes) ==
  IF minutes < 5 THEN "2min" ELSE IF minutes < 15 THEN "10min" ELSE "30plus"

\* updateLastTaskTime: const newBucket = minutes <= 5 ? '2min' :
\* minutes <= 15 ? '10min' : '30plus'
NewBucket(minutes) ==
  IF minutes <= 5 THEN "2min" ELSE IF minutes <= 15 THEN "10min" ELSE "30plus"

MinutesInputs == { [minutes |-> n] : n \in 0..MaxMinutes }

\* The bucket each of the three places gives to the minutes given: the
\* parser, updateTimeEstimate and updateLastTaskTime.
BucketByParser ==
  /\ Return2("getDurationBucket", input.minutes,
             getDurationBucket(Some(input.minutes), ""))
  /\ UNCHANGED <<previewMode, input, sessions, created_tasks, todoist,
                 threadCache, threadStore, now, calls, log, response>>

BucketByTimeEstimate ==
  /\ Return2("updateTimeEstimate", input.minutes,
             BucketOfMinutes(input.minutes))
  /\ UNCHANGED <<previewMode, input, sessions, created_tasks, todoist,
                 threadCache, threadStore, now, calls, log, response>>

BucketByLastTaskTime ==
  /\ Return2("updateLastTaskTime", input.minutes, NewBucket(input.minutes))
  /\ UNCHANGED <<previewMode, input, sessions, created_tasks, todoist,
                 threadCache, threadStore, now, calls, log, response>>

BucketInit == Start /\ input \in MinutesInputs

BucketNext == BucketByParser \/ BucketByTimeEstimate \/ BucketByLastTaskTime

BucketSpec == BucketInit /\ [][BucketNext]_vars

\* C32: for every number of minutes, getDurationBucket, updateTimeEstimate
\* and updateLastTaskTime give the same bucket: 2min up to 5 minutes, 10min
\* from 6 to 15, 30plus above 15.
BucketingRule ==
  returned.op \in {"getDurationBucket", "updateTimeEstimate",
                   "updateLastTaskTime"}
    => returned.value = (IF returned.key \in 0..5 THEN "2min"
                         ELSE IF returned.key \in 6..15 THEN "10min"
                         ELSE "30plus")

\* updateLastTaskTime gave its bucket to 15 minutes, the last of 10min.
BucketingRuleWitness ==
  /\ returned.op = "updateLastTaskTime"
  /\ returned.key = 15
  /\ returned.value = "10min"

\* The subtasks the stored task carries, none when it has no such field.
StoredSubtasks(task) ==
  IF "subtasks" \in DOMAIN task THEN task.subtasks ELSE None

\* C33: after a breakdown that succeeded for a task of the user's pending
\* session, the stored session holds that task with its subtasks.
BreakdownStored ==
  [][ \A u \in Callers, ref \in 1..MaxTasks :
        (Breakdown(u, ref, "subtasks") /\ response'.type = "preview")
          => \E sid \in GetLastPendingSession(sessions, u) :
               StoredSubtasks(sessions'[sid].parsed[ref]) # None ]_vars

\* --------------------------------------------- no task silently dropped
\* Claim C34: whenever a session leaves pending for accepted or pushed,
\* every task of that session has either been created in Todoist or been
\* reported to the caller as failed (it is among the failed tasks of the
\* accept call that answers with a warning).
NoTaskDropped ==
  [][ \A sid \in DOMAIN sessions :
        (/\ sessions[sid].status = "pending"
         /\ sessions'[sid].status \in {"accepted", "pushed"})
          => \A i \in DOMAIN sessions[sid].parsed :
               \/ \E k \in DOMAIN todoist' :
                    todoist'[k].sid = sid /\ todoist'[k].idx = i
               \/ \E c \in Slots :
                    /\ calls[c].pc = "push"
                    /\ calls[c].sid = sid
                    /\ response'.type = "warning"
                    /\ \E j \in DOMAIN calls[c].failed :
                         calls[c].failed[j] = i ]_vars

\* ------------------------------------------------------ session ownership
\* Every user sends requests: organize, resume, discard, and accept with
\* and without a sessionId.
OwnershipNext ==
  \/ \E u \in Users, p \in ParsedLists : Organize(u, p)
  \/ \E u \in Users : Resume(u)
  \/ \E u \in Users : Discard(u)
  \/ \E u \in Users, sid \in 0..MaxSessions : AcceptBegin(1, u, sid)
  \/ AcceptSteps(1)

OwnershipSpec == Init /\ [][OwnershipNext]_vars

\* Claim C35: an operation invoked for user u reads, changes the status of,
\* or creates external tasks for a session only if that session's userId is
\* u: the session an accept call for u works on (reads, creates the tasks
\* of, marks pushed) is a session of u, accept with an explicit sessionId
\* included, and a session that resume or discard for u changes is a
\* session of u.
SessionOwnership ==
  [][ /\ \A c \in Slots :
           calls'[c].pc # "idle"
             => sessions'[calls'[c].sid].userId = calls'[c].userId
      /\ \A u \in Users :
           (Resume(u) \/ Discard(u))
             => \A sid \in DOMAIN sessions :
                  sessions'[sid] # sessions[sid] => sessions[sid].userId = u ]_vars

\* ---------------------------------------------------------------- discard
\* The users stage sessions and discard them; one of them confirms sessions
\* (accept fills the ledger and marks the session pushed).
DiscardNext ==
  \/ \E u \in Users : CreateSession(u, SampleParsed)
  \/ \E u \in Callers : AcceptBegin(1, u, 0)
  \/ AcceptSteps(1)
  \/ \E u \in Users : Discard(u)

DiscardSpec == Init /\ [][DiscardNext]_vars

\* Claim C36: discard(userId) changes exactly one session, a pending session
\* of the user than which no pending session of the user was updated later,
\* to discarded, and leaves every other session, the ledger and Todoist
\* unchanged; with no pending session of the user it changes nothing and
\* returns an error.
DiscardFrame ==
  [][ \A u \in Users :
        Discard(u)
          => /\ created_tasks' = created_tasks
             /\ todoist' = todoist
             /\ DOMAIN sessions' = DOMAIN sessions
             /\ IF \A s \in DOMAIN sessions :
                     ~(sessions[s].userId = u /\ sessions[s].status = "pending")
                THEN /\ sessions' = sessions
                     /\ response'.type = "error"
                ELSE \E sid \in DOMAIN sessions :
                       /\ sessions[sid].userId = u
                       /\ sessions[sid].status = "pending"
                       /\ \A s \in DOMAIN sessions :
                            (sessions[s].userId = u /\ sessions[s].status = "pending")
                              => sessions[s].updatedAt <= sessions[sid].updatedAt
                       /\ sessions'[sid].status = "discarded"
                       /\ sessions'[sid].userId = u
                       /\ sessions'[sid].parsed = sessions[sid].parsed
                       /\ \A s \in DOMAIN sessions \ {sid} :
                            sessions'[s] = sessions[s]
                       /\ response'.type = "success" ]_vars

\* discard has just discarded one session of a user who has an older pending
\* session left, while another user's session is pushed and its tasks are
\* in the ledger.
DiscardFrameWitness ==
  /\ response.op = "discard"
  /\ response.type = "success"
  /\ created_tasks # {}
  /\ \E s1, s2, s3 \in DOMAIN sessions :
       /\ sessions[s1].status = "discarded"
       /\ sessions[s2].userId = sessions[s1].userId
       /\ sessions[s2].status = "pending"
       /\ sessions[s2].updatedAt < sessions[s1].updatedAt
       /\ sessions[s3].userId # sessions[s1].userId
       /\ sessions[s3].status = "pushed"

\* ------------------------------------- ThreadStateService, calls under way
\* The calls under way on the thread state service: reads, the keys of the
\* getThreadState calls whose SELECT has run and met an expired row and
\* whose callback has not run yet; write, the updateThreadState call that
\* has set the cache and issued its INSERT.
NoRace == [reads |-> {}, write |-> None]

\* getThreadState on the database path: the cache has no entry, db.get is
\* issued and the SELECT runs, meeting an expired row.
ReadGet(key) ==
  /\ input.write = None
  /\ key \notin input.reads
  /\ threadCache[key] = None
  /\ threadDb[key] # None
  /\ Expired(RowToState(threadDb[key][1]), now)
  /\ input' = [input EXCEPT !.reads = @ \cup {key}]
  /\ UNCHANGED <<previewMode, returned, sessions, created_tasks, todoist,
                 threadCache, threadStore, now, calls, log, response>>

\* The callback of that db.get: the row is expired, clearThreadState is
\* called and not awaited (it deletes the cache entry of the key and issues
\* the DELETE), and the read resolves null.
ReadCallback(key) ==
  /\ key \in input.reads
  /\ input' = [input EXCEPT !.reads = @ \ {key}]
  /\ threadCache' = [threadCache EXCEPT ![key] = None]
  /\ pendingDelete' = pendingDelete \cup {key}
  /\ Return2("getThreadState begun earlier", key, None)
  /\ UNCHANGED <<previewMode, sessions, created_tasks, todoist, threadDb,
                 written, now, calls, log, response>>

\* updateThreadState up to its INSERT: the existing state is read, the new
\* state is set in the cache and the INSERT OR REPLACE is issued.
WriteBegin(key, update) ==
  LET got == GetThreadState(threadCache, threadDb, pendingDelete, key, now)
      th == UpdateThreadState(threadCache, threadDb, pendingDelete, key,
                              update, now)
  IN /\ input.write = None
     /\ input' = [input EXCEPT !.write =
                    Some([key |-> key, update |-> update, state |-> th.state])]
     /\ threadCache' = th.cache
     /\ threadDb' = got.db
     /\ pendingDelete' = th.pending
     /\ Return2("updateThreadState begun", key, Some(update))
     /\ UNCHANGED <<previewMode, sessions, created_tasks, todoist, written,
                    now, calls, log, response>>

\* The INSERT OR REPLACE runs and its callback resolves: updateThreadState
\* has completed.
WriteEnd ==
  /\ input.write # None
  /\ LET w == input.write[1] IN
       /\ threadDb' = [threadDb EXCEPT ![w.key] = Some(StateToRow(w.state))]
       /\ written' = [written EXCEPT ![w.key] = Some(w.state)]
       /\ Return2("updateThreadState", w.key, Some(w.update))
  /\ input' = [input EXCEPT !.write = None]
  /\ UNCHANGED <<previewMode, sessions, created_tasks, todoist, threadCache,
                 pendingDelete, now, calls, log, response>>

\* The process is restarted while the contexts written are expired (no
\* restart within the 30 minutes after an update).
RestartWhenExpired ==
  /\ input = NoRace
  /\ \A key \in CallerKeys :
       written[key] # None /\ Expired(written[key][1], now)
  /\ Restart

RaceInit == Start /\ input = NoRace

RaceNext ==
  \/ \E key \in CallerKeys : ThreadRead(key)
  \/ \E key \in CallerKeys : ReadGet(key)
  \/ \E key \in CallerKeys : ReadCallback(key)
  \/ \E key \in CallerKeys, update \in ThreadUpdates : WriteBegin(key, update)
  \/ WriteEnd
  \/ \E key \in CallerKeys : DeleteRuns(key)
  \/ \E d \in {EXPIRY_MS, EXPIRY_MS + 1} : Advance(d)
  \/ RestartWhenExpired

RaceSpec == RaceInit /\ [][RaceNext]_vars

\* Claim C37: once updateThreadState for a key has completed, a
\* getThreadState for that key made within the next 30 minutes (and while
\* no other update is under way) returns the updated state, whatever
\* getThreadState calls that began earlier and met an expired entry do in
\* between.
UpdateNotLost ==
  (/\ returned.op = "getThreadState"
   /\ input.write = None
   /\ written[returned.key] # None
   /\ returned.at - written[returned.key][1].updatedAt <= EXPIRY_MS)
    => returned.value = written[returned.key]

\* ------------------------------------------------ updates after the expiry
\* updateThreadState(userId, channelId, update), keeping for the history the
\* state the previous update of the key had written (None when there was
\* none).
UpdateThreadStateCall(key, update) ==
  LET th == UpdateThreadState(threadCache, threadDb, pendingDelete, key,
                              update, now) IN
  /\ threadCache' = th.cache
  /\ threadDb' = th.db
  /\ pendingDelete' \in AfterInsert(th.pending, key)
  /\ written' = [written EXCEPT ![key] = Some(th.state)]
  /\ Return2("updateThreadState", key,
             Some([update |-> update, previous |-> written[key]]))
  /\ UNCHANGED <<previewMode, input, sessions, created_tasks, todoist, now,
                 calls, log, response>>

ExpiryNext ==
  \/ \E key \in CallerKeys : ThreadRead(key)
  \/ \E key \in CallerKeys, update \in ThreadUpdates :
       UpdateThreadStateCall(key, update)
  \/ \E key \in CallerKeys : DeleteRuns(key)
  \/ \E d \in {EXPIRY_MS, EXPIRY_MS + 1} : Advance(d)
  \/ Restart

ExpirySpec == Init /\ [][ExpiryNext]_vars

\* The fields of a state that hold a value.
Valued(state) == { f \in ThreadFields : state[f] # None }

\* Claim C39: an updateThreadState made more than 30 minutes after the
\* previous update of the key leaves a context (the state written, the
\* cache entry and the row) that holds the fields the update gives and no
\* other: every field the update leaves out, or gives as null, is empty,
\* whatever the expired context held.
ExpiredNotResurrected ==
  (/\ returned.op = "updateThreadState"
   /\ returned.value[1].previous # None
   /\ returned.at - returned.value[1].previous[1].updatedAt > EXPIRY_MS)
    => LET key == returned.key
           update == returned.value[1].update
           new == written[key][1]
       IN /\ \A f \in ThreadFields :
               IF update[f] # None /\ ~GivenNull(update, f)
               THEN new[f] = update[f]
               ELSE new[f] = None
          /\ new.updatedAt = returned.at
          /\ threadCache[key] # None => threadCache[key] = written[key]
          /\ threadDb[key] # None => threadDb[key] = Some(StateToRow(new))

\* An update was made more than 30 minutes after the previous one, whose
\* context held fields this update does not give.
ExpiredNotResurrectedWitness ==
  /\ returned.op = "updateThreadState"
  /\ returned.value[1].previous # None
  /\ returned.at - returned.value[1].previous[1].updatedAt > EXPIRY_MS
  /\ \E f \in Valued(returned.value[1].previous[1]) :
       returned.value[1].update[f] = None
  /\ threadCache[returned.key] # None
  /\ threadDb[returned.key] # None

\* ------------------------------------------------------ updateLastTaskTime
\* The intent a correction leaving the context as a created task would write.
UpdatedIntentKept == "task_created"

\* lastIntent: 'task_updated'
UpdatedIntent == "task_updated"

\* `[${newBucket}] ${threadState.lastTaskTitle}`
CorrectedContent(newBucket, title) ==
  <<"[" \o newBucket \o "]">> \o (IF title = None THEN <<"undefined">> ELSE title[1])

\* updateLastTaskTime(timeText, userId): timeText is the number of minutes
\* the pattern reads, or None when it does not match; updated tells whether
\* todoist.updateTask succeeds or throws.
UpdateLastTaskTime(userId, timeText, updated) ==
  LET key == <<userId, "DM">>
      got == GetThreadState(threadCache, threadDb, pendingDelete, key, now)
  IN
  /\ Quiet
  /\ UNCHANGED <<previewMode, input, returned, sessions, created_tasks, calls,
                 log, now>>
  /\ IF \/ got.state = None
        \/ got.state[1].lastIntent # Some("task_created")
        \/ got.state[1].lastCreatedTaskId = None
     THEN /\ RespondWith("updateLastTaskTime", "error", "no recent task to update")
          /\ threadCache' = got.cache
          /\ threadDb' = got.db
          /\ pendingDelete' = got.pending
          /\ UNCHANGED <<todoist, written>>
     ELSE IF timeText = None
     THEN /\ RespondWith("updateLastTaskTime", "error", "time format")
          /\ threadCache' = got.cache
          /\ threadDb' = got.db
          /\ pendingDelete' = got.pending
          /\ UNCHANGED <<todoist, written>>
     ELSE IF ~updated
     THEN /\ RespondWith("updateLastTaskTime", "error", "could not update")
          /\ threadCache' = got.cache
          /\ threadDb' = got.db
          /\ pendingDelete' = got.pending
          /\ UNCHANGED <<todoist, written>>
     ELSE LET minutes == timeText[1]
              newBucket == NewBucket(minutes)
              id == got.state[1].lastCreatedTaskId[1]
              update == [NoThreadUpdate EXCEPT
                           !.lastIntent = Some(UpdatedIntent),
                           !.context = Some([duration_bucket |-> newBucket,
                                             explicit_minutes |-> Some(minutes),
                                             justUpdatedTask |-> TRUE])]
              th == UpdateThreadState(got.cache, got.db, got.pending, key,
                                      update, now)
          IN /\ id \in DOMAIN todoist
             /\ todoist' = [todoist EXCEPT ![id].content =
                              CorrectedContent(newBucket, got.state[1].lastTaskTitle)]
             /\ threadCache' = th.cache
             /\ threadDb' = th.db
             /\ pendingDelete' \in AfterInsert(th.pending, key)
             /\ written' = [written EXCEPT ![key] = Some(th.state)]
             /\ RespondWith("updateLastTaskTime", "success", "updated")

\* Tasks are created (by organize, by the answer to a time question) and
\* their times are corrected, as time passes.
CorrectionNext ==
  \/ \E u \in Callers, p \in ParsedLists : Organize(u, p)
  \/ \E u \in Callers, tt \in TimeTexts : UpdateTimeEstimate(u, tt)
  \/ \E u \in Callers, tt \in TimeTexts, updated \in BOOLEAN :
       UpdateLastTaskTime(u, tt, updated)
  \/ \E d \in {EXPIRY_MS, EXPIRY_MS + 1} : Advance(d)

CorrectionSpec == Init /\ [][CorrectionNext]_vars

\* Claim C38: updateLastTaskTime changes a task in Todoist only when the
\* service holds an unexpired context for the thread whose lastIntent is
\* task_created and that has a lastCreatedTaskId, and the time text parses;
\* in every other case, and when the update in Todoist fails, it returns
\* an error and leaves the context and Todoist as they were.  When it
\* succeeds the context has lastIntent task_updated, and a correction made
\* on a context whose lastIntent is task_updated returns the error "no
\* recent task to update".
CorrectionRule ==
  [][ \A u \in Callers, tt \in TimeTexts, updated \in BOOLEAN :
        UpdateLastTaskTime(u, tt, updated)
          => LET key == <<u, "DM">>
                 ctx == Existing(key)
                 eligible == /\ ctx # None
                             /\ ctx[1].lastIntent = Some("task_created")
                             /\ ctx[1].lastCreatedTaskId # None
                             /\ tt # None
             IN /\ todoist' # todoist => eligible
                /\ (~eligible \/ ~updated)
                     => /\ response'.type = "error"
                        /\ todoist' = todoist
                        /\ Existing(key)' = ctx
                /\ (eligible /\ updated)
                     => /\ response'.type = "success"
                        /\ Existing(key)' # None
                        /\ Existing(key)'[1].lastIntent = Some("task_updated")
                        /\ Existing(key)'[1].lastCreatedTaskId = ctx[1].lastCreatedTaskId
                /\ (ctx # None /\ ctx[1].lastIntent = Some("task_updated"))
                     => response'.message = "no recent task to update" ]_vars

\* A correction has succeeded and the one that followed it was answered
\* "no recent task to update": the context is the one the first left, and
\* the task in Todoist carries the corrected bucket.
CorrectionRuleWitness ==
  /\ response.op = "updateLastTaskTime"
  /\ response.message = "no recent task to update"
  /\ \E u \in Callers :
       /\ Existing(<<u, "DM">>) # None
       /\ Existing(<<u, "DM">>)[1].lastIntent = Some("task_updated")
       /\ \E id \in DOMAIN todoist :
            /\ Existing(<<u, "DM">>)[1].lastCreatedTaskId = Some(id)
            /\ todoist[id].content[1] \in {"[2min]", "[30plus]"}

====
